---------------------------- MODULE Spec2Model ----------------------------
(***************************************************************************)
(* Model of the PlushForums static-site converter                          *)
(* (src/converter/convert_forum.py): the markup engine                     *)
(* (convert_plush_bbcode and its callbacks), the conversion pipeline       *)
(* (convert), the incremental cache and the derived-data generators.       *)
(*                                                                         *)
(* Text is modelled as TLA+ strings, i.e. sequences of characters: Len,    *)
(* SubSeq and \o are the Python len, slice and +.  Python dicts are        *)
(* modelled as sequences of <<key, value>> pairs, which keeps the          *)
(* insertion order a dict iterates in.                                     *)
(***************************************************************************)
EXTENDS Integers, Sequences, FiniteSets, TLC

VARIABLES
    pc,                    \* position of the running operation
    pieces,                \* the parts the text under conversion is made of
    raw,                   \* convert_plush_bbcode: the text argument
    current_discussion_id, \* convert_plush_bbcode: the owning document
    html,                  \* convert_plush_bbcode: the returned text
    export,                \* the export directory (self.export_path)
    disk,                  \* the output directory (self.output_path)
    saved,                 \* the maps as _save_processed_data last wrote them
    collected,             \* the records the last full run's page loop collected
    html_only,             \* convert: the run mode
    runs,                  \* how many runs of convert have been started
    events,                \* what the current run has done so far, in order
    discussions,           \* self.discussions
    comments,              \* self.comments
    members,               \* self.members
    categories,            \* self.categories
    discussions_meta,      \* convert: the metadata records
    config,                \* self.config
    conversations,         \* the message converter's self.conversations
    messages               \* the message converter's self.messages

entity_maps == <<discussions, comments, members, categories>>
render_vars == <<pieces, raw, current_discussion_id, html>>
history == <<saved, collected>>
dm_maps == <<conversations, messages>>
vars == <<pc, render_vars, export, disk, history, html_only, runs, events,
          entity_maps, discussions_meta, config, dm_maps>>

(***************************************************************************)
(* Python values whose type matters to the code: an int, a str or None.    *)
(***************************************************************************)
PyInt(n) == [ty |-> "int", v |-> n]
PyStr(s) == [ty |-> "str", v |-> s]
PyNone == [ty |-> "none", v |-> 0]

\* bool(x): None, 0 and "" are false
Truthy(x) ==
    CASE x.ty = "int" -> x.v # 0
      [] x.ty = "str" -> x.v # ""
      [] OTHER -> FALSE

\* str(x)
Str(x) ==
    CASE x.ty = "int" -> ToString(x.v)
      [] x.ty = "str" -> x.v
      [] OTHER -> "None"

(***************************************************************************)
(* dict: a sequence of <<key, value>> pairs with distinct integer keys.    *)
(***************************************************************************)
DictKeys(d) == [i \in 1..Len(d) |-> d[i][1]]
DictHas(d, k) == \E i \in 1..Len(d) : d[i][1] = k
DictGet(d, k) == d[CHOOSE i \in 1..Len(d) : d[i][1] = k][2]
\* d[k] = v : a present key keeps its position, a new key goes last
DictSet(d, k, v) ==
    IF DictHas(d, k)
    THEN [i \in 1..Len(d) |-> IF d[i][1] = k THEN <<k, v>> ELSE d[i]]
    ELSE Append(d, <<k, v>>)
\* `x in d` for a Python value x: a str never equals an int key
DictHasPy(d, x) == x.ty = "int" /\ DictHas(d, x.v)

(***************************************************************************)
(* Text primitives.                                                        *)
(***************************************************************************)
Ch(s, i) == SubSeq(s, i, i)

StartsWithAt(s, i, lit) ==
    /\ i >= 1
    /\ i + Len(lit) - 1 <= Len(s)
    /\ SubSeq(s, i, i + Len(lit) - 1) = lit

\* the least position of a set of positions, 0 when there is none
First(hits) ==
    IF hits = {} THEN 0 ELSE CHOOSE p \in hits : \A q \in hits : p <= q

\* first index >= from at which lit starts, 0 when there is none
Find(s, lit, from) ==
    First({p \in from..(Len(s) - Len(lit) + 1) : StartsWithAt(s, p, lit)})

Contains(s, lit) == Find(s, lit, 1) > 0

\* first index >= i whose character is in stop, Len(s)+1 when there is none
SpanNotIn(s, i, stop) ==
    LET p == First({q \in i..Len(s) : Ch(s, q) \in stop}) IN
    IF p = 0 THEN (IF i > Len(s) THEN i ELSE Len(s) + 1) ELSE p

\* first index >= i whose character is not in keep, Len(s)+1 when none
SpanIn(s, i, keep) ==
    LET p == First({q \in i..Len(s) : Ch(s, q) \notin keep}) IN
    IF p = 0 THEN (IF i > Len(s) THEN i ELSE Len(s) + 1) ELSE p

Digits == {"0", "1", "2", "3", "4", "5", "6", "7", "8", "9"}

\* int(s) for a decimal numeral with an optional minus sign
DigitValue(c) == Find("0123456789", c, 1) - 1
IsNumeral(s) ==
    LET body == IF StartsWithAt(s, 1, "-") THEN Tail(s) ELSE s IN
    body # "" /\ \A i \in 1..Len(body) : Ch(body, i) \in Digits
RECURSIVE ParseDigits(_)
ParseDigits(s) ==
    IF s = "" THEN 0
    ELSE 10 * ParseDigits(SubSeq(s, 1, Len(s) - 1)) + DigitValue(Ch(s, Len(s)))
ParseInt(s) ==
    IF StartsWithAt(s, 1, "-") THEN -ParseDigits(Tail(s)) ELSE ParseDigits(s)

\* str.replace(old, new), old non-empty
RECURSIVE StrReplace(_, _, _)
StrReplace(s, old, new) ==
    LET p == Find(s, old, 1) IN
    IF p = 0 THEN s
    ELSE SubSeq(s, 1, p - 1) \o new
         \o StrReplace(SubSeq(s, p + Len(old), Len(s)), old, new)

(***************************************************************************)
(* re.sub: M[i] is the match that starts at index i, as the index e just   *)
(* after it and the replacement out, or NoMatch.  Matches are taken left   *)
(* to right and do not overlap; unmatched characters are copied.           *)
(***************************************************************************)
NoMatch == [e |-> 0, out |-> ""]

RECURSIVE ReSubFrom(_, _, _)
ReSubFrom(s, i, M) ==
    LET j == First({p \in i..Len(s) : M[p].e > 0}) IN
    IF j = 0 THEN SubSeq(s, i, Len(s))
    ELSE SubSeq(s, i, j - 1) \o M[j].out \o ReSubFrom(s, M[j].e, M)

\* a variant that takes the end of the text for a closing tag that is missing
LazyCloseOrEnd(s, from, close, dotall) ==
    LET p == Find(s, close, from) IN
    IF p = 0 THEN Len(s) + 1 ELSE p

\* (.*?)close : the index of the first close at or after from; without
\* DOTALL the lazy body cannot cross a line feed.  0 when there is none.
LazyClose(s, from, close, dotall) ==
    LET p == Find(s, close, from) IN
    IF p = 0 THEN 0
    ELSE IF dotall THEN p
    ELSE IF SpanNotIn(s, from, {"\n"}) < p THEN 0
    ELSE p


(***************************************************************************)
(* generate_slug                                                           *)
(***************************************************************************)
UpperLetters == "ABCDEFGHIJKLMNOPQRSTUVWXYZ"
LowerLetters == "abcdefghijklmnopqrstuvwxyz"
SlugMaxLen == 50

\* str.lower() of one character
LowerCh(c) ==
    LET p == Find(UpperLetters, c, 1) IN
    IF p = 0 THEN c ELSE Ch(LowerLetters, p)

\* str.lower() of s[lo..hi]
RECURSIVE LowerRange(_, _, _)
LowerRange(s, lo, hi) ==
    IF lo > hi THEN ""
    ELSE IF lo = hi THEN LowerCh(Ch(s, lo))
    ELSE LET mid == (lo + hi) \div 2 IN
         LowerRange(s, lo, mid) \o LowerRange(s, mid + 1, hi)
Lower(s) == LowerRange(s, 1, Len(s))

\* \w , \s
IsWordCh(c) ==
    \/ Contains(LowerLetters, c)
    \/ Contains(UpperLetters, c)
    \/ c \in Digits
    \/ c = "_"
WhiteSpace == {" ", "\t", "\n", "\r", "\f"}

\* re.sub(r'[^\w\s-]', '', s)
RECURSIVE StripNonSlugRange(_, _, _)
StripNonSlugRange(s, lo, hi) ==
    IF lo > hi THEN ""
    ELSE IF lo = hi
    THEN LET c == Ch(s, lo) IN
         IF IsWordCh(c) \/ c \in WhiteSpace \/ c = "-" THEN c ELSE ""
    ELSE LET mid == (lo + hi) \div 2 IN
         StripNonSlugRange(s, lo, mid) \o StripNonSlugRange(s, mid + 1, hi)
StripNonSlugChars(s) == StripNonSlugRange(s, 1, Len(s))

\* re.sub(r'[-\s]+', '-', s)
RECURSIVE CollapseSeparators(_, _)
CollapseSeparators(s, i) ==
    LET j == SpanNotIn(s, i, WhiteSpace \cup {"-"}) IN
    IF j > Len(s) THEN SubSeq(s, i, Len(s))
    ELSE SubSeq(s, i, j - 1) \o "-"
         \o CollapseSeparators(s, SpanIn(s, j, WhiteSpace \cup {"-"}))

\* a variant that does not truncate
GenerateSlugUntruncated(title) ==
    CollapseSeparators(StripNonSlugChars(Lower(title)), 1)

generate_slug(title) ==
    LET slug == CollapseSeparators(StripNonSlugChars(Lower(title)), 1) IN
    SubSeq(slug, 1, IF Len(slug) < SlugMaxLen THEN Len(slug) ELSE SlugMaxLen)

(***************************************************************************)
(* The reply and complex-quote callbacks.  target_id is the text captured  *)
(* by the pattern; disc_id = target_id[1:] is a str, and it is looked up   *)
(* as such in self.discussions, whose keys are the integer DiscussionIDs.  *)
(***************************************************************************)
\* _convert_reply_tag with a fallback that still formats the slugged URL
ReplyTagSluggedFallback(username, target_id, cur, store) ==
    IF StartsWithAt(target_id, 1, "d")
    THEN LET disc_id == PyStr(Tail(target_id)) IN
         IF Truthy(cur) /\ Str(disc_id) = Str(cur)
         THEN "<a href=\"#discussion-top\" class=\"reply-link\">Reply to "
              \o username \o "</a>"
         ELSE "<a href=\"/discussions/" \o Str(disc_id) \o "-"
              \o generate_slug(IF DictHasPy(store, disc_id)
                               THEN DictGet(store, disc_id.v).Name ELSE "")
              \o ".html\" class=\"reply-link\">Reply to " \o username \o "</a>"
    ELSE "<a href=\"#comment-" \o target_id
         \o "\" class=\"reply-link\">Reply to " \o username \o "</a>"

_convert_reply_tag(username, target_id, cur, store) ==
    IF StartsWithAt(target_id, 1, "d")
    THEN LET disc_id == PyStr(Tail(target_id)) IN
         IF Truthy(cur) /\ Str(disc_id) = Str(cur)
         THEN "<a href=\"#discussion-top\" class=\"reply-link\">Reply to "
              \o username \o "</a>"
         ELSE IF DictHasPy(store, disc_id)
         THEN "<a href=\"/discussions/" \o Str(disc_id) \o "-"
              \o generate_slug(DictGet(store, disc_id.v).Name)
              \o ".html\" class=\"reply-link\">Reply to " \o username \o "</a>"
         ELSE "<a href=\"/discussions/" \o Str(disc_id)
              \o "\" class=\"reply-link\">Reply to " \o username \o "</a>"
    ELSE "<a href=\"#comment-" \o target_id
         \o "\" class=\"reply-link\">Reply to " \o username \o "</a>"

_convert_complex_quote(username, target_id, quoted_content, cur, store) ==
    LET quote == "<blockquote class=\"user-quote\">" \o quoted_content
                 \o "</blockquote>"
    IN
    IF StartsWithAt(target_id, 1, "d")
    THEN LET disc_id == PyStr(Tail(target_id)) IN
         IF Truthy(cur) /\ Str(disc_id) = Str(cur)
         THEN "<a href=\"#discussion-top\" class=\"quote-link\">Quoting "
              \o username \o "</a>" \o quote
         ELSE IF DictHasPy(store, disc_id)
         THEN "<a href=\"/discussions/" \o Str(disc_id) \o "-"
              \o generate_slug(DictGet(store, disc_id.v).Name)
              \o ".html\" class=\"quote-link\">Quoting " \o username
              \o "</a>" \o quote
         ELSE "<a href=\"/discussions/" \o Str(disc_id)
              \o "\" class=\"quote-link\">Quoting " \o username
              \o "</a>" \o quote
    ELSE "<a href=\"#comment-" \o target_id
         \o "\" class=\"quote-link\">Quoting " \o username \o "</a>" \o quote

\* \[reply="([^";]+);(d?\d+)"\]
ReplyMatchAt(s, i, cur, store) ==
    IF ~StartsWithAt(s, i, "[reply=\"") THEN NoMatch
    ELSE
    LET u == i + 8
        uEnd == SpanNotIn(s, u, {"\"", ";"})
        t == uEnd + 1
        dStart == IF StartsWithAt(s, t, "d") THEN t + 1 ELSE t
        dEnd == SpanIn(s, dStart, Digits)
    IN  IF /\ uEnd > u
           /\ StartsWithAt(s, uEnd, ";")
           /\ dEnd > dStart
           /\ StartsWithAt(s, dEnd, "\"]")
        THEN [e |-> dEnd + 2,
              out |-> _convert_reply_tag(SubSeq(s, u, uEnd - 1),
                                         SubSeq(s, t, dEnd - 1), cur, store)]
        ELSE NoMatch

\* \[quote="([^";]+);([^"]+)"\](.*?)\[/quote\]   (DOTALL)
ComplexQuoteMatchAt(s, i, cur, store) ==
    IF ~StartsWithAt(s, i, "[quote=\"") THEN NoMatch
    ELSE
    LET u == i + 8
        uEnd == SpanNotIn(s, u, {"\"", ";"})
        t == uEnd + 1
        tEnd == SpanNotIn(s, t, {"\""})
        b == tEnd + 2
        close == LazyClose(s, b, "[/quote]", TRUE)
    IN  IF /\ uEnd > u
           /\ StartsWithAt(s, uEnd, ";")
           /\ tEnd > t
           /\ StartsWithAt(s, tEnd, "\"]")
           /\ close > 0
        THEN [e |-> close + 8,
              out |-> _convert_complex_quote(SubSeq(s, u, uEnd - 1),
                          SubSeq(s, t, tEnd - 1), SubSeq(s, b, close - 1),
                          cur, store)]
        ELSE NoMatch

\* \[quote="([^"]+)"\](.*?)\[/quote\]   (DOTALL)
NamedQuoteMatchAt(s, i) ==
    IF ~StartsWithAt(s, i, "[quote=\"") THEN NoMatch
    ELSE
    LET u == i + 8
        uEnd == SpanNotIn(s, u, {"\""})
        b == uEnd + 2
        close == LazyClose(s, b, "[/quote]", TRUE)
    IN  IF uEnd > u /\ StartsWithAt(s, uEnd, "\"]") /\ close > 0
        THEN [e |-> close + 8,
              out |-> "<blockquote class=\"user-quote\"><cite>"
                      \o SubSeq(s, u, uEnd - 1) \o ":</cite>"
                      \o SubSeq(s, b, close - 1) \o "</blockquote>"]
        ELSE NoMatch

\* open(.*?)close -> before body after
PairMatchAt(s, i, open, close, dotall, before, after) ==
    IF ~StartsWithAt(s, i, open) THEN NoMatch
    ELSE
    LET b == i + Len(open)
        c == LazyClose(s, b, close, dotall)
    IN  IF c > 0
        THEN [e |-> c + Len(close),
              out |-> before \o SubSeq(s, b, c - 1) \o after]
        ELSE NoMatch

PairSub(s, open, close, dotall, before, after) ==
    ReSubFrom(s, 1, [i \in 1..Len(s) |->
        PairMatchAt(s, i, open, close, dotall, before, after)])

(***************************************************************************)
(* _convert_user_mention: the first member, in dict order, whose name is   *)
(* the mentioned one; the link is emitted when that user_id is truthy.     *)
(***************************************************************************)
_convert_user_mention(username, mem) ==
    LET hits == {i \in 1..Len(mem) : mem[i][2] = username}
        user_id == IF hits = {} THEN PyNone
                   ELSE PyInt(mem[CHOOSE i \in hits :
                                    \A j \in hits : i <= j][1])
    IN  IF Truthy(user_id)
        THEN "<a href=\"/members/" \o Str(user_id)
             \o ".html\" class=\"user-mention\">@" \o username \o "</a>"
        ELSE "<span class=\"user-mention unknown\">@" \o username \o "</span>"

\* @"([^"]+)"
MentionMatchAt(s, i, mem) ==
    IF ~StartsWithAt(s, i, "@\"") THEN NoMatch
    ELSE
    LET u == i + 2
        uEnd == SpanNotIn(s, u, {"\""})
    IN  IF uEnd > u /\ uEnd <= Len(s)
        THEN [e |-> uEnd + 1,
              out |-> _convert_user_mention(SubSeq(s, u, uEnd - 1), mem)]
        ELSE NoMatch

\* \[url=(.*?)\](.*?)\[/url\]
UrlTextMatchAt(s, i) ==
    IF ~StartsWithAt(s, i, "[url=") THEN NoMatch
    ELSE
    LET h == i + 5
        hEnd == LazyClose(s, h, "]", FALSE)
        b == hEnd + 1
        c == IF hEnd = 0 THEN 0 ELSE LazyClose(s, b, "[/url]", FALSE)
    IN  IF c > 0
        THEN [e |-> c + 6,
              out |-> "<a href=\"" \o SubSeq(s, h, hEnd - 1)
                      \o "\" class=\"external-link\">"
                      \o SubSeq(s, b, c - 1) \o "</a>"]
        ELSE NoMatch

\* \[url\](.*?)\[/url\]
UrlMatchAt(s, i) ==
    IF ~StartsWithAt(s, i, "[url]") THEN NoMatch
    ELSE
    LET b == i + 5
        c == LazyClose(s, b, "[/url]", FALSE)
    IN  IF c > 0
        THEN [e |-> c + 6,
              out |-> "<a href=\"" \o SubSeq(s, b, c - 1)
                      \o "\" class=\"external-link\">"
                      \o SubSeq(s, b, c - 1) \o "</a>"]
        ELSE NoMatch

(***************************************************************************)
(* Lists.                                                                  *)
(***************************************************************************)
\* re.split(r'\[\*\]', s)
RECURSIVE SplitItems(_)
SplitItems(s) ==
    LET p == Find(s, "[*]", 1) IN
    IF p = 0 THEN <<s>>
    ELSE <<SubSeq(s, 1, p - 1)>> \o SplitItems(SubSeq(s, p + 3, Len(s)))

\* re.sub(r'<br>\s*', '', s)
RECURSIVE StripBreaks(_, _)
StripBreaks(s, i) ==
    LET j == Find(s, "<br>", i) IN
    IF j = 0 THEN SubSeq(s, i, Len(s))
    ELSE SubSeq(s, i, j - 1) \o StripBreaks(s, SpanIn(s, j + 4, WhiteSpace))

\* str.strip()
Strip(s) ==
    LET a == SpanIn(s, 1, WhiteSpace)
        nonWs == {q \in 1..Len(s) : Ch(s, q) \notin WhiteSpace}
    IN  IF nonWs = {} THEN ""
        ELSE SubSeq(s, a, CHOOSE q \in nonWs : \A r \in nonWs : r <= q)

\* a variant that keeps the items that are empty after cleaning
RECURSIVE LiTagsKeepEmpty(_)
LiTagsKeepEmpty(items) ==
    IF items = <<>> THEN ""
    ELSE "<li>" \o Strip(StripBreaks(Head(items), 1)) \o "</li>"
         \o LiTagsKeepEmpty(Tail(items))

\* the cleaned, non-empty items of a list body, as <li> elements
RECURSIVE LiTags(_)
LiTags(items) ==
    IF items = <<>> THEN ""
    ELSE LET item == Strip(StripBreaks(Head(items), 1)) IN
         (IF item # "" THEN "<li>" \o item \o "</li>" ELSE "")
         \o LiTags(Tail(items))

ListTypes == {"1", "a", "A", "i", "I"}

\* a variant that types the list with whatever token it is given
ConvertOrderedListAlwaysTyped(list_type, list_content) ==
    "<ol type=\"" \o list_type \o "\">" \o LiTags(SplitItems(list_content))
    \o "</ol>"

_convert_ordered_list(list_type, list_content) ==
    LET li_tags == LiTags(SplitItems(list_content)) IN
    IF list_type \in ListTypes
    THEN "<ol type=\"" \o list_type \o "\">" \o li_tags \o "</ol>"
    ELSE "<ol>" \o li_tags \o "</ol>"

_convert_unordered_list(list_content) ==
    "<ul>" \o LiTags(SplitItems(list_content)) \o "</ul>"

\* \[list=([^\]]+)\](.*?)\[/list\]   (DOTALL)
OrderedListMatchAt(s, i) ==
    IF ~StartsWithAt(s, i, "[list=") THEN NoMatch
    ELSE
    LET t == i + 6
        tEnd == SpanNotIn(s, t, {"]"})
        b == tEnd + 1
        c == LazyClose(s, b, "[/list]", TRUE)
    IN  IF tEnd > t /\ tEnd <= Len(s) /\ c > 0
        THEN [e |-> c + 7,
              out |-> _convert_ordered_list(SubSeq(s, t, tEnd - 1),
                                            SubSeq(s, b, c - 1))]
        ELSE NoMatch

\* \[list\](.*?)\[/list\]   (DOTALL)
UnorderedListMatchAt(s, i) ==
    IF ~StartsWithAt(s, i, "[list]") THEN NoMatch
    ELSE
    LET b == i + 6
        c == LazyClose(s, b, "[/list]", TRUE)
    IN  IF c > 0
        THEN [e |-> c + 7, out |-> _convert_unordered_list(SubSeq(s, b, c - 1))]
        ELSE NoMatch

(***************************************************************************)
(* convert_plush_bbcode: the cascade, in the order of the code.            *)
(***************************************************************************)
\* a variant that leaves a CR without LF as it is
NormalizeLineBreaksNoCr(text) ==
    StrReplace(StrReplace(text, "\r\n", "\n"), "\n", "<br>\n")

NormalizeLineBreaks(text) ==
    StrReplace(StrReplace(StrReplace(text, "\r\n", "\n"), "\r", "\n"),
               "\n", "<br>\n")

ReplyStage(s, cur, store) ==
    ReSubFrom(s, 1, [i \in 1..Len(s) |-> ReplyMatchAt(s, i, cur, store)])

ComplexQuoteStage(s, cur, store) ==
    ReSubFrom(s, 1, [i \in 1..Len(s) |-> ComplexQuoteMatchAt(s, i, cur, store)])

NamedQuoteStage(s) ==
    ReSubFrom(s, 1, [i \in 1..Len(s) |-> NamedQuoteMatchAt(s, i)])

SimpleQuoteStage(s) ==
    PairSub(s, "[quote]", "[/quote]", TRUE,
            "<blockquote class=\"simple-quote\">", "</blockquote>")

MentionStage(s, mem) ==
    ReSubFrom(s, 1, [i \in 1..Len(s) |-> MentionMatchAt(s, i, mem)])

FormattingStage(s) ==
    PairSub(PairSub(PairSub(s, "[b]", "[/b]", FALSE, "<strong>", "</strong>"),
                    "[i]", "[/i]", FALSE, "<em>", "</em>"),
            "[u]", "[/u]", FALSE, "<u>", "</u>")

UrlStage(s) ==
    LET t == ReSubFrom(s, 1, [i \in 1..Len(s) |-> UrlTextMatchAt(s, i)]) IN
    ReSubFrom(t, 1, [i \in 1..Len(t) |-> UrlMatchAt(t, i)])

MediaStage(s) ==
    PairSub(s, "[media]", "[/media]", FALSE,
            "<div class=\"media-embed\"><a href=\"",
            "\" target=\"_blank\">Media content</a></div>")

ImageStage(s) ==
    PairSub(s, "[img]", "[/img]", FALSE, "<img src=\"",
            "\" alt=\"User image\" class=\"user-image\" loading=\"lazy\">")

CodeStage(s) ==
    PairSub(s, "[code]", "[/code]", TRUE, "<pre><code>", "</code></pre>")

ListStage(s) ==
    LET t == ReSubFrom(s, 1, [i \in 1..Len(s) |-> OrderedListMatchAt(s, i)]) IN
    ReSubFrom(t, 1, [i \in 1..Len(t) |-> UnorderedListMatchAt(t, i)])

convert_plush_bbcode(text, cur, store, mem) ==
    IF text = "" THEN ""
    ELSE
    ListStage(CodeStage(ImageStage(MediaStage(UrlStage(FormattingStage(
        MentionStage(SimpleQuoteStage(NamedQuoteStage(
            ComplexQuoteStage(ReplyStage(NormalizeLineBreaks(text),
                                         cur, store),
                              cur, store))), mem)))))))

(***************************************************************************)
(* Specification SpecRender: one call of convert_plush_bbcode on a text    *)
(* made of whole tags and plain text, for an owning discussion of the      *)
(* store.                                                                  *)
(***************************************************************************)
MaxPieces == 2

\* the pieces a text is made of: a reply tag, a quote tag with a body, or
\* plain text
RenderPieces ==
    LET ReplyTag(user, target) ==
            "[reply=\"" \o user \o ";" \o target \o "\"]"
        QuoteTag(user, target, body) ==
            "[quote=\"" \o user \o ";" \o target \o "\"]" \o body
            \o "[/quote]"
        RenderUsers == {"bob"}
        RenderTargets == {"d0", "d7", "d10", "d99"}
    IN {[kind |-> "reply", user |-> u, target |-> t, body |-> "",
         text |-> ReplyTag(u, t)] :
           u \in RenderUsers, t \in RenderTargets \cup {"5"}}
       \cup {[kind |-> "cquote", user |-> u, target |-> t,
              body |-> "so\ntrue", text |-> QuoteTag(u, t, "so\ntrue")] :
                u \in RenderUsers, t \in RenderTargets}
       \cup {[kind |-> "text", user |-> "", target |-> "", body |-> "",
              text |-> "I agree.\r\n"]}

RECURSIVE JoinPieces(_)
JoinPieces(ps) ==
    IF ps = <<>> THEN "" ELSE Head(ps).text \o JoinPieces(Tail(ps))

RenderStores ==
    { <<<<10, [Name |-> "Hello, World!"]>>>>,
      <<<<7, [Name |-> "Foo Bar"]>>, <<0, [Name |-> "Zero"]>>>>,
      <<<<0, [Name |-> "Zero"]>>, <<10, [Name |-> "Hello, World!"]>>,
        <<7, [Name |-> "Foo Bar"]>>>> }

\* the variables of the runs of convert, when no run is under way
NoRun ==
    /\ export = <<>>
    /\ disk = <<>>
    /\ saved = <<>>
    /\ collected = <<>>
    /\ html_only = FALSE
    /\ runs = 0
    /\ events = <<>>
    /\ discussions_meta = <<>>
    /\ config = <<>>
    /\ conversations = <<>>
    /\ messages = <<>>

InitRender ==
    /\ pc = "render_call"
    /\ pieces \in UNION {[1..n -> RenderPieces] : n \in 0..MaxPieces}
    /\ raw = JoinPieces(pieces)
    /\ discussions \in RenderStores
    /\ current_discussion_id \in {discussions[i][1] : i \in 1..Len(discussions)}
    /\ members = <<<<1, "bob">>>>
    /\ html = ""
    /\ comments = <<>>
    /\ categories = <<>>
    /\ NoRun

\* generate_discussion_page calling convert_plush_bbcode(body, disc_id)
Render ==
    /\ pc = "render_call"
    /\ html' = convert_plush_bbcode(raw, PyInt(current_discussion_id),
                                    discussions, members)
    /\ pc' = "render_done"
    /\ UNCHANGED <<pieces, raw, current_discussion_id, entity_maps, export, disk,
                   history, html_only, runs, events, discussions_meta,
                   config, dm_maps>>

NextRender == Render

SpecRender == InitRender /\ [][NextRender]_vars

(***************************************************************************)
(* Cross-reference resolution (SpecRender).                                *)
(***************************************************************************)
IsReference(p) == p.kind \in {"reply", "cquote"}
IsDiscussionQualified(p) == IsReference(p) /\ StartsWithAt(p.target, 1, "d")
TargetDiscussion(p) == ParseInt(Tail(p.target))
LinkClass(p) == IF p.kind = "reply" THEN "reply-link" ELSE "quote-link"
LinkLabel(p) ==
    IF p.kind = "reply" THEN "Reply to " \o p.user ELSE "Quoting " \o p.user
\* the anchor element a reference is rendered as, for a given href
LinkTo(p, href) ==
    "<a href=\"" \o href \o "\" class=\"" \o LinkClass(p) \o "\">"
    \o LinkLabel(p) \o "</a>"
Rendered == pc = "render_done"

\* C1: every reply tag and complex-quote tag whose discussion-qualified ID
\* names a discussion of the store other than the owning one is rendered as
\* a link to /discussions/{id}-{slug}.html, slug = generate_slug(title).
C1_ExistingTargetGetsSlug ==
    Rendered =>
        \A i \in 1..Len(pieces) :
            LET p == pieces[i] IN
            ( /\ IsDiscussionQualified(p)
              /\ DictHas(discussions, TargetDiscussion(p))
              /\ TargetDiscussion(p) # current_discussion_id )
            => Contains(html,
                   LinkTo(p, "/discussions/" \o ToString(TargetDiscussion(p))
                       \o "-"
                       \o generate_slug(
                            DictGet(discussions, TargetDiscussion(p)).Name)
                       \o ".html"))

\* C2: every reply tag and complex-quote tag whose discussion-qualified ID
\* is the owning document is rendered with the #discussion-top anchor, and
\* never with a /discussions/... URL, for every owning document.
C2_OwnTargetGetsTopAnchor ==
    Rendered =>
        \A i \in 1..Len(pieces) :
            LET p == pieces[i] IN
            ( /\ IsDiscussionQualified(p)
              /\ TargetDiscussion(p) = current_discussion_id )
            => /\ Contains(html, LinkTo(p, "#discussion-top"))
               /\ ~Contains(html, "/discussions/"
                                  \o ToString(current_discussion_id) \o "\"")
               /\ ~Contains(html, "/discussions/"
                                  \o ToString(current_discussion_id) \o "-")

\* C3: every reply tag and complex-quote tag whose discussion-qualified ID
\* is not in the store (and is not the owning document) is rendered as a
\* link to /discussions/{id}: the ID alone, no slug.
C3_UnknownTargetGetsIdOnlyLink ==
    Rendered =>
        \A i \in 1..Len(pieces) :
            LET p == pieces[i] IN
            ( /\ IsDiscussionQualified(p)
              /\ ~DictHas(discussions, TargetDiscussion(p))
              /\ TargetDiscussion(p) # current_discussion_id )
            => /\ Contains(html, LinkTo(p, "/discussions/"
                                     \o ToString(TargetDiscussion(p))))
               /\ ~Contains(html, "/discussions/"
                                  \o ToString(TargetDiscussion(p)) \o "-")

C3_Witness ==
    /\ Rendered
    /\ \E i, j \in 1..Len(pieces) :
        /\ pieces[i].kind = "reply" /\ pieces[j].kind = "cquote"
        /\ pieces[i].target = "d99" /\ pieces[j].target = "d99"
        /\ Contains(html, LinkTo(pieces[i], "/discussions/99"))
        /\ Contains(html, LinkTo(pieces[j], "/discussions/99")
                          \o "<blockquote class=\"user-quote\">")

(***************************************************************************)
(* Python helpers of the conversion run.                                   *)
(***************************************************************************)
\* d.get(k, default) for an object d read from JSON
GetOr(d, k, default) == IF k \in DOMAIN d THEN d[k] ELSE default

\* d.get(k, default) for a dict d
DictGetOr(d, k, default) == IF DictHas(d, k) THEN DictGet(d, k) ELSE default

\* a dict built by assigning the pairs in order
RECURSIVE DictFrom(_)
DictFrom(pairs) ==
    IF pairs = <<>> THEN <<>>
    ELSE LET last == pairs[Len(pairs)] IN
         DictSet(DictFrom(SubSeq(pairs, 1, Len(pairs) - 1)), last[1], last[2])

\* the elements of a sequence, each at its first occurrence
Dedupe(seq) ==
    LET firsts == {i \in 1..Len(seq) : \A j \in 1..(i - 1) : seq[j] # seq[i]}
        nth(p) == CHOOSE i \in firsts :
                      Cardinality({j \in firsts : j < i}) = p - 1
    IN [p \in 1..Cardinality(firsts) |-> seq[nth(p)]]

\* list.sort: before[i][j] says that the key of element i sorts strictly
\* ahead of the key of element j; elements with equal keys keep their order
StableSort(seq, before) ==
    LET n == Len(seq)
        pos(i) == Cardinality({j \in 1..n : before[j][i]})
                  + Cardinality({j \in 1..(i - 1) :
                                     ~before[j][i] /\ ~before[i][j]})
                  + 1
    IN [p \in 1..n |-> seq[CHOOSE i \in 1..n : pos(i) = p]]

\* sort(key=lambda x: x[field], reverse=reverse) on dates
SortByDate(seq, field, reverse) ==
    StableSort(seq, [i \in 1..Len(seq) |-> [j \in 1..Len(seq) |->
        IF reverse THEN seq[i][field] > seq[j][field]
                   ELSE seq[i][field] < seq[j][field]]])

\* a < b on str: by code point at the first difference, then by length.
\* Ascii is the printable ASCII in code point order, without the backquote,
\* which no modelled name holds
StrLess(a, b) ==
    LET Ascii ==
            " !\"#$%&'()*+,-./0123456789:;<=>?@ABCDEFGHIJKLMNOPQRSTUVWXYZ[\\]^_"
            \o "abcdefghijklmnopqrstuvwxyz{|}~"
        m == IF Len(a) < Len(b) THEN Len(a) ELSE Len(b)
        p == First({i \in 1..m : Ch(a, i) # Ch(b, i)})
    IN IF p = 0 THEN Len(a) < Len(b)
       ELSE Find(Ascii, Ch(a, p), 1) < Find(Ascii, Ch(b, p), 1)

\* html.escape(s), quote=True
html_escape(s) ==
    StrReplace(StrReplace(StrReplace(StrReplace(StrReplace(
        s, "&", "&amp;"), "<", "&lt;"), ">", "&gt;"),
        "\"", "&quot;"), "'", "&#x27;")

\* text[:n] + '...' if len(text) > n else text
Excerpt(text, n) ==
    IF Len(text) > n THEN SubSeq(text, 1, n) \o "..." ELSE text

\* open(path, 'w').write(content) on a directory tree d
WriteFile(d, name, content) ==
    [f \in DOMAIN d \cup {name} |-> IF f = name THEN content ELSE d[f]]

\* the files written one after the other
RECURSIVE WriteAll(_, _)
WriteAll(d, files) ==
    IF files = <<>> THEN d
    ELSE WriteFile(WriteAll(d, SubSeq(files, 1, Len(files) - 1)),
                   files[Len(files)][1], files[Len(files)][2])

\* the run's log: what was done, and to what
Event(op, arg) == [op |-> op, arg |-> arg]
Wrote(name) == Event("write", name)

(***************************************************************************)
(* The export directory: per source, whether its path exists and the JSON  *)
(* files below it in the order the directory walk yields them.  A member   *)
(* or discussion file holds one object, a comment file a list of objects,  *)
(* categories/all.json the list of categories.                             *)
(***************************************************************************)
MaxMemberFiles == 1
MaxDiscussionFiles == 2
MaxCommentFiles == 1

\* the exports the runs convert: up to two members, a category list, up to
\* three discussions (one of an excluded category, one of a category that
\* is not listed, one by a user who is no member) and up to two comment
\* files (with a comment on a discussion that is in no file)
Exports ==
    LET Member(id, name) == [UserID |-> id, Name |-> name]
        Category(id, name) == [CategoryID |-> id, Name |-> name]
        Discussion(id, name, body, user, category, date) ==
            [DiscussionID |-> id, Name |-> name, Body |-> body,
             InsertUserID |-> user, CategoryID |-> category,
             DateInserted |-> date, CountViews |-> 3]
        Comment(id, disc, body, user, date) ==
            [CommentID |-> id, DiscussionID |-> disc, Body |-> body,
             InsertUserID |-> user, DateInserted |-> date]
        MemberFiles == {Member(1, "bob"), Member(2, "Al")}
        CategoryList ==
            <<Category(1, "General"), Category(21, "Moderators")>>
        DiscussionFiles ==
            { Discussion(10, "Hello, World!", "[b]Hi[/b]\r\nall", 1, 1, 2),
              Discussion(7, "Foo Bar", "a < b", 3, 5, 4),
              Discussion(3, "Staff", "x", 2, 21, 3) }
        CommentFiles ==
            { << Comment(6, 10, "yes", 1, 8),
                 Comment(5, 10, "[i]no[/i]", 2, 6),
                 Comment(8, 3, "hm", 2, 7) >>,
              << Comment(9, 7, "ok", 2, 9), Comment(4, 99, "lost", 1, 5) >> }
        \* the paths that exist, with lo to hi distinct files of S in any
        \* order, and the path that does not exist
        Sources(S, lo, hi) ==
            {[exists |-> TRUE, files |-> fs] :
                fs \in {gs \in UNION {[1..k -> S] : k \in lo..hi} :
                           \A i, j \in 1..Len(gs) : i # j => gs[i] # gs[j]}}
            \cup {[exists |-> FALSE, files |-> <<>>]}
    IN [members : Sources(MemberFiles, 1, MaxMemberFiles),
        categories : {[exists |-> TRUE, files |-> CategoryList],
                      [exists |-> FALSE, files |-> <<>>]},
        discussions : Sources(DiscussionFiles, 0, MaxDiscussionFiles),
        comments : Sources(CommentFiles, 1, MaxCommentFiles)]

\* a variant that excludes no category
ExcludedCategoriesNone == {}

\* config['excluded_categories']
ExcludedCategories == config.excluded_categories
\* config['homepage_page_size'] of the runs of convert
HomepagePageSize == 1

(***************************************************************************)
(* Loading the export.                                                     *)
(***************************************************************************)
\* rewrites the characters U+0080..U+009F only; the texts modelled here are
\* ASCII, which it returns as they are
fix_windows_1252_encoding(text) == text

get_category_name(category_id, cats) ==
    IF DictHasPy(cats, category_id)
    THEN DictGet(cats, category_id.v).Name
    ELSE "Uncategorized"

get_username(user_id, mem) ==
    IF DictHas(mem, user_id) THEN DictGet(mem, user_id)
    ELSE "User " \o ToString(user_id)

\* the loop over member_files: a file without UserID or Name is skipped
RECURSIVE load_member_data(_, _)
load_member_data(member_files, mem) ==
    IF member_files = <<>> THEN mem
    ELSE LET member_data == Head(member_files) IN
         load_member_data(Tail(member_files),
             IF {"UserID", "Name"} \subseteq DOMAIN member_data
             THEN DictSet(mem, member_data.UserID, member_data.Name)
             ELSE mem)

load_category_data(source) ==
    IF source.exists
    THEN DictFrom([i \in 1..Len(source.files) |->
                      <<source.files[i].CategoryID, source.files[i]>>])
    ELSE <<>>

\* discussion.get('CategoryID')
CategoryOf(discussion) ==
    IF "CategoryID" \in DOMAIN discussion THEN PyInt(discussion.CategoryID)
    ELSE PyNone

\* the loop over the discussion files: a file of an excluded category is
\* passed over, a file whose DiscussionID cannot be read raises and is skipped
RECURSIVE _load_discussions(_, _, _)
_load_discussions(files, cats, discs) ==
    IF files = <<>> THEN discs
    ELSE LET discussion == Head(files)
             category_id == CategoryOf(discussion)
             loaded == [f \in DOMAIN discussion \cup {"CategoryName"} |->
                 CASE f = "CategoryName" ->
                          get_category_name(category_id, cats)
                   [] f \in {"Body", "Name"} ->
                          fix_windows_1252_encoding(discussion[f])
                   [] OTHER -> discussion[f]]
         IN _load_discussions(Tail(files), cats,
                IF \/ (category_id.ty = "int"
                        /\ category_id.v \in ExcludedCategories)
                   \/ "DiscussionID" \notin DOMAIN discussion
                THEN discs
                ELSE DictSet(discs, discussion.DiscussionID, loaded))

\* a variant that keeps the comments of discussions that are not in the store
RECURSIVE LoadCommentBatchKeepAll(_, _, _)
LoadCommentBatchKeepAll(comments_batch, discs, coms) ==
    IF comments_batch = <<>> THEN coms
    ELSE LET comment == Head(comments_batch) IN
         IF "DiscussionID" \notin DOMAIN comment THEN coms
         ELSE LET disc_id == comment.DiscussionID
                  fixed == [f \in DOMAIN comment |->
                               IF f = "Body"
                               THEN fix_windows_1252_encoding(comment[f])
                               ELSE comment[f]]
              IN LoadCommentBatchKeepAll(Tail(comments_batch), discs,
                     IF FALSE THEN coms
                     ELSE DictSet(coms, disc_id,
                              Append(DictGetOr(coms, disc_id, <<>>), fixed)))

\* one comment file: a comment of a discussion that is not in the store is
\* passed over; a comment without DiscussionID raises, which ends the file
RECURSIVE LoadCommentBatch(_, _, _)
LoadCommentBatch(comments_batch, discs, coms) ==
    IF comments_batch = <<>> THEN coms
    ELSE LET comment == Head(comments_batch) IN
         IF "DiscussionID" \notin DOMAIN comment THEN coms
         ELSE LET disc_id == comment.DiscussionID
                  fixed == [f \in DOMAIN comment |->
                               IF f = "Body"
                               THEN fix_windows_1252_encoding(comment[f])
                               ELSE comment[f]]
              IN LoadCommentBatch(Tail(comments_batch), discs,
                     IF ~DictHas(discs, disc_id) THEN coms
                     ELSE DictSet(coms, disc_id,
                              Append(DictGetOr(coms, disc_id, <<>>), fixed)))

\* the loop over the comment files, before the final sort
RECURSIVE LoadCommentFiles(_, _, _)
LoadCommentFiles(files, discs, coms) ==
    IF files = <<>> THEN coms
    ELSE LoadCommentFiles(Tail(files), discs,
                          LoadCommentBatch(Head(files), discs, coms))

\* the final loop sorts the lists one after the other; a comment without
\* DateInserted raises in the sort key, outside every handler, which leaves
\* its list and the later ones as they were read
_load_comments(source, discs) ==
    LET coms == LoadCommentFiles(source.files, discs, <<>>)
        raises(i) == \E j \in 1..Len(coms[i][2]) :
                         "DateInserted" \notin DOMAIN coms[i][2][j]
        failed == First({i \in 1..Len(coms) : raises(i)})
    IN [i \in 1..Len(coms) |->
           <<coms[i][1],
             IF failed = 0 \/ i < failed
             THEN SortByDate(coms[i][2], "DateInserted", FALSE)
             ELSE coms[i][2]>>]

(***************************************************************************)
(* The processed-data cache.                                               *)
(***************************************************************************)
\* json.dump of a dict with int keys: each key is written as its numeral
JsonObject(d) == [i \in 1..Len(d) |-> <<ToString(d[i][1]), d[i][2]>>]

\* a variant that numbers the entries instead of reading their keys
IntKeyedByPosition(data) ==
    [i \in 1..Len(data) |-> <<i, data[i][2]>>]

\* {int(k): v for k, v in data.items()}
IntKeyed(data) ==
    DictFrom([i \in 1..Len(data) |-> <<ParseInt(data[i][1]), data[i][2]>>])

CacheFiles ==
    <<"processed_data/discussions.json", "processed_data/comments.json",
      "processed_data/members.json", "processed_data/categories.json">>

\* maps: the four entity maps in the order of CacheFiles
_save_processed_data(d, maps) ==
    WriteAll(d, [n \in 1..Len(CacheFiles) |->
                    <<CacheFiles[n], JsonObject(maps[n])>>])

\* the four maps after the call and its result: a file that is missing or
\* has a key int() rejects raises, which leaves the later maps as they were
_load_processed_data(d, maps) ==
    LET readable(n) ==
            /\ CacheFiles[n] \in DOMAIN d
            /\ \A j \in 1..Len(d[CacheFiles[n]]) :
                   IsNumeral(d[CacheFiles[n]][j][1])
        failed == First({n \in 1..Len(CacheFiles) : ~readable(n)})
    IN [ok |-> failed = 0,
        maps |-> [n \in 1..Len(CacheFiles) |->
                     IF failed = 0 \/ n < failed
                     THEN IntKeyed(d[CacheFiles[n]]) ELSE maps[n]]]

(***************************************************************************)
(* generate_discussion_page: the page it writes, as the values it gives    *)
(* to the templates, and the metadata record it returns.                   *)
(***************************************************************************)
\* no subscript of generate_discussion_page raises KeyError
Renderable(discussion, coms) ==
    /\ {"DiscussionID", "Name", "Body", "InsertUserID", "DateInserted",
        "CountViews"} \subseteq DOMAIN discussion
    /\ LET cs == DictGetOr(coms, discussion.DiscussionID, <<>>) IN
       \A i \in 1..Len(cs) :
           {"CommentID", "Body", "InsertUserID", "DateInserted"}
               \subseteq DOMAIN cs[i]

\* self.categories.get(category_id, {}).get('Name', 'Uncategorized')
CategoryNameOf(category_id, cats) ==
    IF DictHasPy(cats, category_id)
    THEN GetOr(DictGet(cats, category_id.v), "Name", "Uncategorized")
    ELSE "Uncategorized"

\* a variant that names the file by the ID alone
DiscussionFileNoSlug(discussion) ==
    "discussions/" \o ToString(discussion.DiscussionID) \o ".html"

\* f"{disc_id}-{slug}.html" under the discussions directory
DiscussionFile(discussion) ==
    "discussions/" \o ToString(discussion.DiscussionID) \o "-"
    \o generate_slug(discussion.Name) \o ".html"

DiscussionPage(discussion, discs, coms, mem) ==
    LET disc_id == discussion.DiscussionID
        discussion_comments == DictGetOr(coms, disc_id, <<>>)
    IN [title |-> html_escape(discussion.Name),
        author_name |->
            html_escape(get_username(discussion.InsertUserID, mem)),
        discussion_date |-> discussion.DateInserted,
        view_count |-> discussion.CountViews,
        comment_count |-> Len(discussion_comments),
        discussion_body |->
            convert_plush_bbcode(discussion.Body, PyInt(disc_id), discs, mem),
        comments_html |-> [i \in 1..Len(discussion_comments) |->
            LET comment == discussion_comments[i] IN
            [id |-> "comment-" \o ToString(comment.CommentID),
             author |-> html_escape(get_username(comment.InsertUserID, mem)),
             date |-> comment.DateInserted,
             href |-> "#comment-" \o ToString(comment.CommentID),
             likes |-> GetOr(comment, "Likes", 0),
             content |-> convert_plush_bbcode(comment.Body, PyInt(disc_id),
                                              discs, mem)]]]

\* the record generate_discussion_page returns
PageMeta(discussion, coms, cats) ==
    LET disc_id == discussion.DiscussionID
        slug == generate_slug(discussion.Name)
        discussion_comments == DictGetOr(coms, disc_id, <<>>)
    IN [id |-> disc_id,
        title |-> discussion.Name,
        date |-> discussion.DateInserted,
        slug |-> slug,
        url |-> "/discussions/" \o ToString(disc_id) \o "-" \o slug
                \o ".html",
        comment_count |-> Len(discussion_comments),
        author_id |-> discussion.InsertUserID,
        category_id |-> CategoryOf(discussion),
        category_name |-> CategoryNameOf(CategoryOf(discussion), cats)]

\* a variant that does not count the comments
RebuiltMetaUncounted(discussion, coms, cats) ==
    [id |-> discussion.DiscussionID,
     title |-> discussion.Name,
     date |-> discussion.DateInserted,
     slug |-> generate_slug(discussion.Name),
     url |-> "/discussions/" \o ToString(discussion.DiscussionID) \o "-"
             \o generate_slug(discussion.Name) \o ".html",
     comment_count |-> 0,
     author_id |-> discussion.InsertUserID,
     category_id |-> CategoryOf(discussion),
     category_name |-> CategoryNameOf(CategoryOf(discussion), cats)]

\* convert, html-only branch: the record rebuilt for one discussion
RebuiltMeta(discussion, coms, cats) ==
    [id |-> discussion.DiscussionID,
     title |-> discussion.Name,
     date |-> discussion.DateInserted,
     slug |-> generate_slug(discussion.Name),
     url |-> "/discussions/" \o ToString(discussion.DiscussionID) \o "-"
             \o generate_slug(discussion.Name) \o ".html",
     comment_count |->
         Len(DictGetOr(coms, discussion.DiscussionID, <<>>)),
     author_id |-> discussion.InsertUserID,
     category_id |-> CategoryOf(discussion),
     category_name |-> CategoryNameOf(CategoryOf(discussion), cats)]

(***************************************************************************)
(* The user data generators.  Each is the sequence of <<file, content>>    *)
(* it writes, in the order it writes them.                                 *)
(***************************************************************************)
\* the indices at which flags holds, in order
Where(flags) ==
    LET Holds(i) == flags[i] IN
    SelectSeq([i \in 1..Len(flags) |-> i], Holds)

\* for disc_id, comments in self.comments.items(): for comment in comments
RECURSIVE FlatComments(_)
FlatComments(coms) ==
    IF coms = <<>> THEN <<>>
    ELSE [j \in 1..Len(coms[1][2]) |-> <<coms[1][1], coms[1][2][j]>>]
         \o FlatComments(Tail(coms))

\* the authors of the posts in the order the two loops meet them
PostAuthors(meta, coms) ==
    [i \in 1..Len(meta) |-> meta[i].author_id]
    \o [i \in 1..Len(FlatComments(coms)) |->
            FlatComments(coms)[i][2].InsertUserID]

\* the title a comment's entry cites for its discussion
CommentDiscussionTitle(disc_id, discs) ==
    IF DictHas(discs, disc_id) THEN DictGet(discs, disc_id).Name
    ELSE "Unknown Discussion"

\* a variant that names the page by the discussion ID alone
CommentUrlWithoutSlug(disc_id, comment, discs) ==
    "/discussions/" \o ToString(disc_id) \o ".html#comment-"
    \o ToString(comment.CommentID)

\* the url of a comment's entry
CommentUrl(disc_id, comment, discs) ==
    "/discussions/" \o ToString(disc_id) \o "-"
    \o generate_slug(CommentDiscussionTitle(disc_id, discs))
    \o ".html#comment-" \o ToString(comment.CommentID)

generate_user_posts_data(meta, discs, coms, mem) ==
    LET flat == FlatComments(coms)
        authors == PostAuthors(meta, coms)
        users == Dedupe(authors)
        username_lookup ==
            DictFrom([i \in 1..Len(users) |->
                <<Lower(get_username(users[i], mem)), users[i]>>])
        discussion_entry(i) ==
            LET disc == meta[i]
                discussion == DictGet(discs, disc.id)
            IN [id |-> disc.id, title |-> disc.title, date |-> disc.date,
                url |-> disc.url,
                content |-> Excerpt(GetOr(discussion, "Body", ""), 500),
                full_content |-> GetOr(discussion, "Body", "")]
        comment_entry(i) ==
            LET disc_id == flat[i][1]
                comment == flat[i][2]
            IN [id |-> comment.CommentID, discussion_id |-> disc_id,
                discussion_title |-> CommentDiscussionTitle(disc_id, discs),
                date |-> comment.DateInserted,
                url |-> CommentUrl(disc_id, comment, discs),
                content |-> Excerpt(GetOr(comment, "Body", ""), 300),
                full_content |-> GetOr(comment, "Body", "")]
        own_discussions(u) ==
            LET at == Where([i \in 1..Len(meta) |-> meta[i].author_id = u])
            IN [k \in 1..Len(at) |-> discussion_entry(at[k])]
        own_comments(u) ==
            LET at == Where([i \in 1..Len(flat) |->
                                 flat[i][2].InsertUserID = u])
            IN [k \in 1..Len(at) |-> comment_entry(at[k])]
        user_file(u) ==
            <<"assets/user-data/" \o ToString(u) \o ".json",
              [discussions |-> SortByDate(own_discussions(u), "date", TRUE),
               comments |-> SortByDate(own_comments(u), "date", TRUE)]>>
        user_index ==
            [i \in 1..Len(mem) |->
                [id |-> mem[i][1], name |-> mem[i][2],
                 discussion_count |-> Len(own_discussions(mem[i][1])),
                 comment_count |-> Len(own_comments(mem[i][1]))]]
    IN << <<"assets/js/user-lookup.js", username_lookup>> >>
       \o [i \in 1..Len(users) |-> user_file(users[i])]
       \o << <<"assets/js/user-index.js", user_index>> >>

generate_user_search_index(meta, coms, mem) ==
    LET authors == PostAuthors(meta, coms)
        users == Dedupe(authors)
        user_post_counts ==
            [i \in 1..Len(users) |->
                <<users[i],
                  Cardinality({j \in 1..Len(authors) :
                                  authors[j] = users[i]})>>]
        usernames ==
            DictFrom([i \in 1..Len(mem) |-> <<Lower(mem[i][2]), mem[i][1]>>])
    IN << <<"assets/js/user-search-index.js",
            [usernames |-> usernames,
             post_counts |-> JsonObject(user_post_counts),
             total_users |-> Len(usernames)]>> >>

\* chunk_size
ChunkSize == 50

ChunkFile(chunk_num) ==
    "assets/user-chunks/chunk-" \o ToString(chunk_num) \o ".js"

\* a variant whose slices are one user short
ChunkSliceShort(i, n) ==
    (i + 1)..(IF i + ChunkSize - 1 < n THEN i + ChunkSize - 1 ELSE n)

\* all_users[i:i + chunk_size] as the indices of all_users it takes, for
\* the chunk that starts at offset i of a list of n users
ChunkSlice(i, n) ==
    (i + 1)..(IF i + ChunkSize < n THEN i + ChunkSize ELSE n)

generate_user_data_chunks(meta, discs, coms, mem) ==
    LET flat == FlatComments(coms)
        all_users == DictKeys(mem)
        user_discussions(u) ==
            LET at == Where([i \in 1..Len(meta) |-> meta[i].author_id = u])
            IN [k \in 1..Len(at) |->
                   LET disc == meta[at[k]]
                       discussion == DictGet(discs, disc.id)
                   IN [id |-> disc.id, title |-> disc.title,
                       date |-> disc.date, url |-> disc.url,
                       excerpt |->
                           Excerpt(GetOr(discussion, "Body", ""), 200)]]
        user_comments(u) ==
            LET at == Where([i \in 1..Len(flat) |->
                                 flat[i][2].InsertUserID = u])
            IN [k \in 1..Len(at) |->
                   LET disc_id == flat[at[k]][1]
                       comment == flat[at[k]][2]
                   IN [id |-> comment.CommentID, discussion_id |-> disc_id,
                       discussion_title |->
                           CommentDiscussionTitle(disc_id, discs),
                       date |-> comment.DateInserted,
                       url |-> CommentUrl(disc_id, comment, discs),
                       excerpt |->
                           Excerpt(GetOr(comment, "Body", ""), 150)]]
        user_data(u) ==
            [username |-> get_username(u, mem),
             discussions |-> user_discussions(u),
             comments |-> user_comments(u)]
        \* range(0, len(all_users), chunk_size)
        n_chunks == (Len(all_users) + ChunkSize - 1) \div ChunkSize
        chunk_data(chunk_num) ==
            LET ids == ChunkSlice(chunk_num * ChunkSize, Len(all_users))
                at == Where([i \in 1..Len(all_users) |-> i \in ids])
            IN [k \in 1..Len(at) |->
                   <<all_users[at[k]], user_data(all_users[at[k]])>>]
        user_chunks ==
            LET placed == UNION {ChunkSlice(c * ChunkSize, Len(all_users)) :
                                    c \in 0..(n_chunks - 1)}
                at == Where([i \in 1..Len(all_users) |-> i \in placed])
            IN [k \in 1..Len(at) |->
                   <<all_users[at[k]],
                     CHOOSE c \in 0..(n_chunks - 1) :
                         at[k] \in ChunkSlice(c * ChunkSize, Len(all_users))>>]
    IN [c \in 1..n_chunks |->
           <<ChunkFile(c - 1), JsonObject(chunk_data(c - 1))>>]
       \o << <<"assets/js/user-chunk-mapping.js", JsonObject(user_chunks)>> >>

(***************************************************************************)
(* The site pages.  Each generator is the sequence of <<file, content>>    *)
(* it writes, in the order it writes them.                                 *)
(***************************************************************************)
generate_about_page == << <<"about.html", [title |-> "About"]>> >>

generate_your_posts_page ==
    << <<"your-posts.html",
         [title |-> "Your Posts",
          extrafoot |-> <<"/assets/js/user-search-index.js",
                          "/assets/js/user-chunk-mapping.js",
                          "/assets/js/your-posts-fast.js">>]>> >>

\* a variant whose next arrow names the page after the next one
GeneratePaginationHtmlSkipping(current_page, total_pages) ==
    [prev |-> IF current_page > 0
              THEN (IF current_page = 1 THEN "/index.html"
                    ELSE "/page-" \o ToString(current_page) \o ".html")
              ELSE "",
     info |-> "Page " \o ToString(current_page + 1) \o " of "
              \o ToString(total_pages),
     next |-> IF current_page < total_pages - 1
              THEN "/page-" \o ToString(current_page + 3) \o ".html"
              ELSE ""]

\* generate_pagination_html(current_page, total_pages): the two arrows'
\* targets ("" for a disabled arrow) and the page information
generate_pagination_html(current_page, total_pages) ==
    [prev |-> IF current_page > 0
              THEN (IF current_page = 1 THEN "/index.html"
                    ELSE "/page-" \o ToString(current_page) \o ".html")
              ELSE "",
     info |-> "Page " \o ToString(current_page + 1) \o " of "
              \o ToString(total_pages),
     next |-> IF current_page < total_pages - 1
              THEN "/page-" \o ToString(current_page + 2) \o ".html"
              ELSE ""]

\* sorted: discussions_meta after the sort of line 918
generate_homepage(sorted, mem, cats) ==
    LET page_size == config.homepage_page_size
        total_pages == (Len(sorted) + page_size - 1) \div page_size
        page(page_num) ==
            LET start_idx == page_num * page_size
                end_idx == start_idx + page_size
                last == IF end_idx < Len(sorted) THEN end_idx ELSE Len(sorted)
                page_discussions == SubSeq(sorted, start_idx + 1, last)
            IN <<IF page_num = 0 THEN "index.html"
                 ELSE "page-" \o ToString(page_num + 1) \o ".html",
                 [title |-> "Page " \o ToString(page_num + 1),
                  total_discussions |-> Len(sorted),
                  top_pagination |->
                      generate_pagination_html(page_num, total_pages),
                  bottom_pagination |->
                      generate_pagination_html(page_num, total_pages),
                  start_idx |-> start_idx + 1,
                  end_idx |-> last,
                  discussions_list |->
                      [i \in 1..Len(page_discussions) |->
                          LET disc == page_discussions[i] IN
                          [href |-> disc.url,
                           title |-> html_escape(disc.title),
                           author |-> html_escape(
                               get_username(disc.author_id, mem)),
                           date |-> disc.date,
                           comments |-> disc.comment_count,
                           category |-> html_escape(
                               CategoryNameOf(disc.category_id, cats))]]]>>
    IN [p \in 1..total_pages |-> page(p - 1)]

generate_search_page(meta, discs, coms, mem, cats) ==
    LET search_data ==
            [i \in 1..Len(meta) |->
                LET disc == meta[i]
                    discussion == DictGet(discs, disc.id)
                    category_id == CategoryOf(discussion)
                IN [title |-> discussion.Name,
                    author |-> get_username(discussion.InsertUserID, mem),
                    url |-> disc.url,
                    type |-> "discussion",
                    date |-> discussion.DateInserted,
                    comment_count |-> Len(DictGetOr(coms, disc.id, <<>>)),
                    id |-> "discussion-" \o ToString(disc.id),
                    category_id |-> category_id,
                    category_name |->
                        IF Truthy(category_id) /\ DictHasPy(cats, category_id)
                        THEN DictGet(cats, category_id.v).Name
                        ELSE "Uncategorized"]]
        listed == Where([i \in 1..Len(cats) |->
                     cats[i][2].Name \notin
                         {"Moderators", "Editors: Private Group"}])
        unsorted == [k \in 1..Len(listed) |->
                        [id |-> cats[listed[k]][1],
                         name |-> cats[listed[k]][2].Name]]
        categories_list ==
            StableSort(unsorted,
                [i \in 1..Len(unsorted) |-> [j \in 1..Len(unsorted) |->
                    StrLess(unsorted[i].name, unsorted[j].name)]])
        category_lookup ==
            DictFrom([i \in 1..Len(categories_list) |->
                <<categories_list[i].id, categories_list[i].name>>])
    IN << <<"assets/js/categories-data.js",
            [searchCategories |-> categories_list,
             categoryLookup |-> JsonObject(category_lookup)]>>,
          <<"assets/js/search-data.js", search_data>>,
          <<"search.html",
            [title |-> "Search",
             extrafoot |-> <<"/assets/js/categories-data.js",
                             "/assets/js/search-data.js",
                             "/assets/js/search.js">>]>> >>

(***************************************************************************)
(* convert(html_only), one action per call it makes.  A run is one         *)
(* process: it starts with the maps of __init__ and works on the output    *)
(* directory the runs before it left.  copy_assets copies static files     *)
(* that no generator reads or writes; it is left out.                      *)
(***************************************************************************)
MaxRuns == 2

Writes(files) == [i \in 1..Len(files) |-> Wrote(files[i][1])]

NoRender ==
    /\ pieces = <<>>
    /\ raw = ""
    /\ current_discussion_id = 0
    /\ html = ""

InitRun ==
    /\ pc = "idle"
    /\ export \in Exports
    /\ disk = <<>>
    /\ saved = <<>>
    /\ collected = <<>>
    /\ html_only = FALSE
    /\ runs = 0
    /\ events = <<>>
    /\ discussions = <<>>
    /\ comments = <<>>
    /\ members = <<>>
    /\ categories = <<>>
    /\ discussions_meta = <<>>
    /\ config = [excluded_categories |-> {21, 22},
                 homepage_page_size |-> HomepagePageSize]
    /\ conversations = <<>>
    /\ messages = <<>>
    /\ NoRender

\* main: a new converter, then convert(html_only)
Ended == {"done", "permission_denied", "no_discussions", "no_cache", "crashed"}

StartConvert ==
    /\ pc \in {"idle"} \cup Ended
    /\ runs < MaxRuns
    /\ runs' = runs + 1
    /\ html_only' \in BOOLEAN
    /\ events' = <<>>
    /\ discussions' = <<>>
    /\ comments' = <<>>
    /\ members' = <<>>
    /\ categories' = <<>>
    /\ discussions_meta' = <<>>
    /\ pc' = IF html_only' THEN "load_processed" ELSE "load_members"
    /\ UNCHANGED <<render_vars, config, dm_maps,
                   export, disk, history>>

LoadMemberData ==
    /\ pc = "load_members"
    /\ members' = load_member_data(export.members.files, members)
    /\ events' = IF export.members.exists
                 THEN Append(events, Event("ingest", "members"))
                 ELSE events
    /\ pc' = "make_directories"
    /\ UNCHANGED <<render_vars, config, dm_maps,
                   export, disk, history, html_only, runs,
                   discussions, comments, categories, discussions_meta>>

\* the mkdir calls: a PermissionError ends the run
MakeDirectories ==
    /\ pc = "make_directories"
    /\ \E permitted \in BOOLEAN :
           pc' = IF permitted THEN "load_categories"
                 ELSE "permission_denied"
    /\ UNCHANGED <<render_vars, config, dm_maps,
                   export, disk, history, html_only, runs,
                   events, entity_maps, discussions_meta>>

LoadCategoryData ==
    /\ pc = "load_categories"
    /\ categories' = load_category_data(export.categories)
    /\ events' = IF export.categories.exists
                 THEN Append(events, Event("ingest", "categories"))
                 ELSE events
    /\ pc' = "load_discussions"
    /\ UNCHANGED <<render_vars, config, dm_maps,
                   export, disk, history, html_only, runs,
                   discussions, comments, members, discussions_meta>>

LoadDiscussions ==
    /\ pc = "load_discussions"
    /\ discussions' = _load_discussions(export.discussions.files, categories,
                                        discussions)
    /\ events' = IF export.discussions.exists
                 THEN Append(events, Event("ingest", "discussions"))
                 ELSE events
    /\ pc' = "load_comments"
    /\ UNCHANGED <<render_vars, config, dm_maps,
                   export, disk, history, html_only, runs,
                   comments, members, categories, discussions_meta>>

\* a variant in which a missing comments path ends the run
LoadCommentsOrStop ==
    /\ pc = "load_comments"
    /\ comments' = _load_comments(export.comments, discussions)
    /\ events' = IF export.comments.exists
                 THEN Append(events, Event("ingest", "comments"))
                 ELSE events
    /\ pc' = IF export.comments.exists THEN "check_discussions"
             ELSE "crashed"
    /\ UNCHANGED <<render_vars, config, dm_maps,
                   export, disk, history, html_only, runs,
                   discussions, members, categories, discussions_meta>>

LoadComments ==
    /\ pc = "load_comments"
    /\ comments' = _load_comments(export.comments, discussions)
    /\ events' = IF export.comments.exists
                 THEN Append(events, Event("ingest", "comments"))
                 ELSE events
    /\ pc' = IF \A i \in 1..Len(comments') :
                  \A j \in 1..Len(comments'[i][2]) :
                      "DateInserted" \in DOMAIN comments'[i][2][j]
             THEN "check_discussions" ELSE "crashed"
    /\ UNCHANGED <<render_vars, config, dm_maps,
                   export, disk, history, html_only, runs,
                   discussions, members, categories, discussions_meta>>

\* a variant that goes on to the pages without the cache being written
CheckDiscussionsSkippingSave ==
    /\ pc = "check_discussions"
    /\ pc' = IF discussions = <<>> THEN "no_discussions"
             ELSE "discussion_pages"
    /\ UNCHANGED <<render_vars, config, dm_maps,
                   export, disk, history, html_only, runs,
                   events, entity_maps, discussions_meta>>

\* if not self.discussions: return
CheckDiscussions ==
    /\ pc = "check_discussions"
    /\ pc' = IF discussions = <<>> THEN "no_discussions"
             ELSE "save_processed"
    /\ UNCHANGED <<render_vars, config, dm_maps,
                   export, disk, history, html_only, runs,
                   events, entity_maps, discussions_meta>>

\* saved records the maps as they are when they are written
SaveProcessedData ==
    /\ pc = "save_processed"
    /\ disk' = _save_processed_data(disk, entity_maps)
    /\ saved' = entity_maps
    /\ events' = events \o [i \in 1..Len(CacheFiles) |-> Wrote(CacheFiles[i])]
    /\ pc' = "discussion_pages"
    /\ UNCHANGED <<render_vars, config, dm_maps,
                   export, collected, html_only, runs,
                   entity_maps, discussions_meta>>

\* one pass of the loop over self.discussions.items(): the discussion it
\* takes is the one after those whose records are collected
GenerateDiscussionPage ==
    /\ pc = "discussion_pages"
    /\ LET discussion == discussions[Len(discussions_meta) + 1][2]
           discussion_comments ==
               DictGetOr(comments, discussion.DiscussionID, <<>>)
       IN IF Renderable(discussion, comments)
          THEN /\ disk' = WriteFile(disk, DiscussionFile(discussion),
                              DiscussionPage(discussion, discussions,
                                             comments, members))
               /\ events' = events
                      \o [i \in 1..(Len(discussion_comments) + 1) |->
                             Event("markup", ToString(discussion.DiscussionID))]
                      \o <<Wrote(DiscussionFile(discussion))>>
               /\ discussions_meta' =
                      Append(discussions_meta,
                             PageMeta(discussion, comments, categories))
               /\ collected' = discussions_meta'
               /\ pc' = IF Len(discussions_meta') = Len(discussions)
                        THEN "user_posts" ELSE "discussion_pages"
          ELSE /\ pc' = "crashed"
               /\ UNCHANGED <<disk, events, discussions_meta, collected>>
    /\ UNCHANGED <<render_vars, config, dm_maps,
                   export, saved, html_only, runs, entity_maps>>

\* a variant that goes on with whatever the load restored
LoadProcessedDataLenient ==
    /\ pc = "load_processed"
    /\ LET result == _load_processed_data(disk, entity_maps) IN
       /\ discussions' = result.maps[1]
       /\ comments' = result.maps[2]
       /\ members' = result.maps[3]
       /\ categories' = result.maps[4]
       /\ pc' = "rebuild_meta"
    /\ UNCHANGED <<render_vars, config, dm_maps,
                   export, disk, history, html_only, runs, events,
                   discussions_meta>>

LoadProcessedData ==
    /\ pc = "load_processed"
    /\ LET result == _load_processed_data(disk, entity_maps) IN
       /\ discussions' = result.maps[1]
       /\ comments' = result.maps[2]
       /\ members' = result.maps[3]
       /\ categories' = result.maps[4]
       /\ pc' = IF result.ok THEN "rebuild_meta" ELSE "no_cache"
    /\ UNCHANGED <<render_vars, config, dm_maps,
                   export, disk, history, html_only, runs, events,
                   discussions_meta>>

\* a variant that also writes each discussion's page
RebuildMetaWithPages ==
    /\ pc = "rebuild_meta"
    /\ discussions_meta' =
           [i \in 1..Len(discussions) |->
               RebuiltMeta(discussions[i][2], comments, categories)]
    /\ disk' = WriteAll(disk, [i \in 1..Len(discussions) |->
                   <<DiscussionFile(discussions[i][2]),
                     DiscussionPage(discussions[i][2], discussions,
                                    comments, members)>>])
    /\ events' = events \o [i \in 1..Len(discussions) |->
                    Wrote(DiscussionFile(discussions[i][2]))]
    /\ pc' = "about_page"
    /\ UNCHANGED <<render_vars, config, dm_maps,
                   export, history, html_only, runs, entity_maps>>

\* the html-only loop over self.discussions.items()
RebuildMeta ==
    /\ pc = "rebuild_meta"
    /\ IF \A i \in 1..Len(discussions) :
              {"DiscussionID", "Name", "DateInserted", "InsertUserID"}
                  \subseteq DOMAIN discussions[i][2]
       THEN /\ discussions_meta' =
                   [i \in 1..Len(discussions) |->
                       RebuiltMeta(discussions[i][2], comments, categories)]
            /\ pc' = "about_page"
       ELSE /\ pc' = "crashed"
            /\ UNCHANGED discussions_meta
    /\ UNCHANGED <<render_vars, config, dm_maps,
                   export, disk, history, html_only, runs, events,
                   entity_maps>>

GenerateUserPostsData ==
    /\ pc = "user_posts"
    /\ LET files == generate_user_posts_data(discussions_meta, discussions,
                                             comments, members)
       IN /\ disk' = WriteAll(disk, files)
          /\ events' = events \o Writes(files)
    /\ pc' = "user_search_index"
    /\ UNCHANGED <<render_vars, config, dm_maps,
                   export, history, html_only, runs, entity_maps,
                   discussions_meta>>

GenerateUserSearchIndex ==
    /\ pc = "user_search_index"
    /\ LET files == generate_user_search_index(discussions_meta, comments,
                                               members)
       IN /\ disk' = WriteAll(disk, files)
          /\ events' = events \o Writes(files)
    /\ pc' = "user_chunks"
    /\ UNCHANGED <<render_vars, config, dm_maps,
                   export, history, html_only, runs, entity_maps,
                   discussions_meta>>

GenerateUserDataChunks ==
    /\ pc = "user_chunks"
    /\ LET files == generate_user_data_chunks(discussions_meta, discussions,
                                              comments, members)
       IN /\ disk' = WriteAll(disk, files)
          /\ events' = events \o Writes(files)
    /\ pc' = "about_page"
    /\ UNCHANGED <<render_vars, config, dm_maps,
                   export, history, html_only, runs, entity_maps,
                   discussions_meta>>

\* a variant that leaves the about page out of an html-only run
GenerateAboutPageFullOnly ==
    /\ pc = "about_page"
    /\ disk' = IF html_only THEN disk ELSE WriteAll(disk, generate_about_page)
    /\ events' = IF html_only THEN events
                 ELSE events \o Writes(generate_about_page)
    /\ pc' = "your_posts_page"
    /\ UNCHANGED <<render_vars, config, dm_maps,
                   export, history, html_only, runs, entity_maps,
                   discussions_meta>>

\* a variant that empties the member map while it writes the page
GenerateAboutPageClearingMembers ==
    /\ pc = "about_page"
    /\ disk' = WriteAll(disk, generate_about_page)
    /\ events' = events \o Writes(generate_about_page)
    /\ pc' = "your_posts_page"
    /\ members' = <<>>
    /\ UNCHANGED <<render_vars, config, dm_maps,
                   export, history, html_only, runs,
                   discussions, comments, categories, discussions_meta>>

GenerateAboutPage ==
    /\ pc = "about_page"
    /\ disk' = WriteAll(disk, generate_about_page)
    /\ events' = events \o Writes(generate_about_page)
    /\ pc' = "your_posts_page"
    /\ UNCHANGED <<render_vars, config, dm_maps,
                   export, history, html_only, runs, entity_maps,
                   discussions_meta>>

GenerateYourPostsPage ==
    /\ pc = "your_posts_page"
    /\ disk' = WriteAll(disk, generate_your_posts_page)
    /\ events' = events \o Writes(generate_your_posts_page)
    /\ pc' = "homepage"
    /\ UNCHANGED <<render_vars, config, dm_maps,
                   export, history, html_only, runs, entity_maps,
                   discussions_meta>>

\* the sort is in place: the list stays sorted for generate_search_page
\* a variant that leaves the records in the order it finds them in
GenerateHomepageUnsorted ==
    /\ pc = "homepage"
    /\ LET files == generate_homepage(discussions_meta, members, categories)
       IN /\ disk' = WriteAll(disk, files)
          /\ events' = events \o Writes(files)
    /\ pc' = "search_page"
    /\ UNCHANGED <<render_vars, config, dm_maps, discussions_meta,
                   export, history, html_only, runs, entity_maps>>

GenerateHomepage ==
    /\ pc = "homepage"
    /\ discussions_meta' = SortByDate(discussions_meta, "date", TRUE)
    /\ LET files == generate_homepage(discussions_meta', members, categories)
       IN /\ disk' = WriteAll(disk, files)
          /\ events' = events \o Writes(files)
    /\ pc' = "search_page"
    /\ UNCHANGED <<render_vars, config, dm_maps,
                   export, history, html_only, runs, entity_maps>>

GenerateSearchPage ==
    /\ pc = "search_page"
    /\ LET files == generate_search_page(discussions_meta, discussions,
                                         comments, members, categories)
       IN /\ disk' = WriteAll(disk, files)
          /\ events' = events \o Writes(files)
    /\ pc' = "done"
    /\ UNCHANGED <<render_vars, config, dm_maps,
                   export, history, html_only, runs, entity_maps,
                   discussions_meta>>

NextRun ==
    \/ StartConvert
    \/ LoadMemberData
    \/ MakeDirectories
    \/ LoadCategoryData
    \/ LoadDiscussions
    \/ LoadComments
    \/ CheckDiscussions
    \/ SaveProcessedData
    \/ GenerateDiscussionPage
    \/ LoadProcessedData
    \/ RebuildMeta
    \/ GenerateUserPostsData
    \/ GenerateUserSearchIndex
    \/ GenerateUserDataChunks
    \/ GenerateAboutPage
    \/ GenerateYourPostsPage
    \/ GenerateHomepage
    \/ GenerateSearchPage

SpecRun == InitRun /\ [][NextRun]_vars

(***************************************************************************)
(* generate_user_data_chunks on member maps of many sizes: n members whose *)
(* IDs are in ascending order (stride 1) or not (stride 100).              *)
(***************************************************************************)
MaxMembers == 101

ChunkMembers(n, stride) ==
    [i \in 1..n |-> <<((i * stride) % 211) + 1, "u" \o ToString(i)>>]

InitChunks ==
    /\ pc = "user_chunks"
    /\ \E n \in 0..MaxMembers, stride \in {1, 100} :
           members = ChunkMembers(n, stride)
    /\ export = [source \in {"members", "categories", "discussions",
                              "comments"} |->
                     [exists |-> FALSE, files |-> <<>>]]
    /\ disk = <<>>
    /\ saved = <<>>
    /\ collected = <<>>
    /\ html_only = FALSE
    /\ runs = 1
    /\ events = <<>>
    /\ discussions = <<>>
    /\ comments = <<>>
    /\ categories = <<>>
    /\ discussions_meta = <<>>
    /\ config = [excluded_categories |-> {21, 22},
                 homepage_page_size |-> HomepagePageSize]
    /\ conversations = <<>>
    /\ messages = <<>>
    /\ NoRender

NextChunks == GenerateUserDataChunks

SpecChunks == InitChunks /\ [][NextChunks]_vars

(***************************************************************************)
(* Properties of the runs of convert.                                      *)
(***************************************************************************)
\* the files the current run has written so far
WrittenFiles ==
    {events[k].arg : k \in {j \in 1..Len(events) : events[j].op = "write"}}

\* how often the current run has written the file
TimesWritten(name) ==
    Cardinality({k \in 1..Len(events) : events[k] = Wrote(name)})

IncrementalDone == html_only /\ pc = "done"
FullDone == ~html_only /\ pc = "done"

\* the positions of an html-only run after its cache was loaded
AfterLoad ==
    {"rebuild_meta", "about_page", "your_posts_page", "homepage",
     "search_page", "done"}

\* the homepage files for n discussions
HomepageFiles(n) ==
    {IF p = 1 THEN "index.html" ELSE "page-" \o ToString(p) \o ".html" :
        p \in {q \in 1..n : (q - 1) * HomepagePageSize < n}}

SitePageFiles ==
    {"about.html", "your-posts.html", "search.html",
     "assets/js/categories-data.js", "assets/js/search-data.js"}

\* the user data files for the members and the authors of the store
UserDataFiles ==
    {"assets/js/user-lookup.js", "assets/js/user-index.js",
     "assets/js/user-search-index.js", "assets/js/user-chunk-mapping.js"}
    \cup {ChunkFile(c) :
             c \in {b \in 0..Len(members) : b * ChunkSize < Len(members)}}
    \cup {"assets/user-data/" \o ToString(discussions[i][2].InsertUserID)
             \o ".json" : i \in 1..Len(discussions)}

IsUserDataFile(name) ==
    \/ name \in UserDataFiles
    \/ StartsWithAt(name, 1, "assets/user-data/")
    \/ StartsWithAt(name, 1, "assets/user-chunks/")

\* C4 as stated: an incremental (html-only) run that loads a valid cache
\* regenerates every derived output, the user data included.
C4_IncrementalRegeneratesEveryDerivedOutput ==
    IncrementalDone =>
        /\ HomepageFiles(Len(discussions)) \subseteq WrittenFiles
        /\ SitePageFiles \subseteq WrittenFiles
        /\ UserDataFiles \subseteq WrittenFiles

\* C4, amended: an incremental (html-only) run that loads a valid cache
\* regenerates the homepage pages, the search page and its two data files,
\* the about page and the your-posts page, each once and from the cached
\* maps; it writes no user data file.
C4_IncrementalRegeneratesSitePages ==
    IncrementalDone =>
        /\ HomepageFiles(Len(discussions)) \subseteq WrittenFiles
        /\ SitePageFiles \subseteq WrittenFiles
        /\ \A name \in WrittenFiles :
               /\ TimesWritten(name) = 1
               /\ ~IsUserDataFile(name)
        /\ Len(disk["assets/js/search-data.js"]) = Len(saved[1])
        /\ disk["index.html"].total_discussions = Len(saved[1])

C4_Witness ==
    /\ IncrementalDone
    /\ {"index.html", "page-2.html", "search.html", "about.html",
        "your-posts.html"} \subseteq WrittenFiles
    /\ "assets/js/user-lookup.js" \in DOMAIN disk
    /\ "assets/js/user-lookup.js" \notin WrittenFiles

\* C5: an incremental (html-only) run never invokes the markup engine,
\* never writes a discussions/<id>-<slug>.html document and never ingests a
\* raw export batch; once loaded, its entity maps are the cache's content.
C5_IncrementalRunOnlyReadsCache ==
    html_only =>
        /\ \A k \in 1..Len(events) :
               /\ events[k].op \notin {"markup", "ingest"}
               /\ ~StartsWithAt(events[k].arg, 1, "discussions/")
        /\ pc \in AfterLoad =>
               /\ CacheFiles[1] \in DOMAIN disk
               /\ entity_maps =
                      <<IntKeyed(disk[CacheFiles[1]]),
                        IntKeyed(disk[CacheFiles[2]]),
                        IntKeyed(disk[CacheFiles[3]]),
                        IntKeyed(disk[CacheFiles[4]])>>

C5_Witness ==
    /\ IncrementalDone
    /\ Len(discussions) = 2
    /\ comments # <<>>
    /\ members # <<>>
    /\ "discussions/10-hello-world.html" \in DOMAIN disk
    /\ events # <<>>

\* C6: the four maps that _load_processed_data restores are the maps that
\* _save_processed_data wrote, key for key and field for field, and every
\* key is an integer again.
C6_CacheRoundTrip ==
    (html_only /\ pc \in AfterLoad) =>
        /\ entity_maps = saved
        /\ \A n \in 1..4 : \A i \in 1..Len(entity_maps[n]) :
               entity_maps[n][i][1] \in Int

C6_Witness ==
    /\ html_only
    /\ pc = "rebuild_meta"
    /\ DictKeys(discussions) = <<10, 7>>
    /\ DictHas(comments, 10)
    /\ DictHas(categories, 21)
    /\ DictHas(members, 2)
    /\ disk[CacheFiles[1]][1][1] = "10"
    /\ discussions = saved[1]

\* C7: the metadata list an incremental run rebuilds from the cached maps
\* equals, record for record and in the same order, the list the full run
\* that wrote the cache collected from generate_discussion_page.
C7_RebuiltMetaEqualsCollected ==
    (html_only /\ pc = "about_page") =>
        /\ discussions_meta = collected
        /\ Len(discussions_meta) = Len(discussions)
        /\ \A i \in 1..Len(discussions_meta) :
               /\ discussions_meta[i].id = discussions[i][1]
               /\ DOMAIN discussions_meta[i] =
                      {"id", "title", "date", "slug", "url", "comment_count",
                       "author_id", "category_id", "category_name"}

C7_Witness ==
    /\ html_only
    /\ pc = "about_page"
    /\ Len(discussions_meta) = 2
    /\ discussions_meta[1].id = 7
    /\ \E i \in 1..2 : /\ discussions_meta[i].comment_count = 2
                       /\ discussions_meta[i].category_name = "General"
    /\ \E i \in 1..2 : discussions_meta[i].category_name = "Uncategorized"

\* C8: after a full run, for every discussion of the store exactly one
\* document discussions/{id}-{slug(title)}.html has been written, it holds
\* an element with the anchor id comment-{c} for every comment c of that
\* discussion, and the metadata list holds exactly one record for the
\* discussion, whose url is "/discussions/{id}-{slug}.html"; ID 10 titled
\* "Hello, World!" gives 10-hello-world.html.
C8_OneDocumentPerDiscussion ==
    FullDone =>
        /\ \A i \in 1..Len(discussions) :
               LET id == discussions[i][1]
                   name == ToString(id) \o "-"
                           \o generate_slug(discussions[i][2].Name)
                           \o ".html"
                   cs == DictGetOr(comments, id, <<>>)
                   page == disk["discussions/" \o name]
                   own == {k \in 1..Len(discussions_meta) :
                              discussions_meta[k].id = id}
               IN /\ TimesWritten("discussions/" \o name) = 1
                  /\ \A j \in 1..Len(cs) :
                         \E e \in 1..Len(page.comments_html) :
                             page.comments_html[e].id
                                 = "comment-" \o ToString(cs[j].CommentID)
                  /\ Cardinality(own) = 1
                  /\ \A k \in own :
                         discussions_meta[k].url = "/discussions/" \o name
        /\ Cardinality({name \in WrittenFiles :
                           StartsWithAt(name, 1, "discussions/")})
               = Len(discussions)
        /\ DictHas(discussions, 10) =>
               TimesWritten("discussions/10-hello-world.html") = 1

C8_Witness ==
    /\ FullDone
    /\ Len(discussions) = 2
    /\ TimesWritten("discussions/10-hello-world.html") = 1
    /\ TimesWritten("discussions/7-foo-bar.html") = 1
    /\ Len(disk["discussions/10-hello-world.html"].comments_html) = 2
    /\ [e \in 1..2 |->
           disk["discussions/10-hello-world.html"].comments_html[e].id]
           = <<"comment-5", "comment-6">>
    /\ \E k \in 1..2 :
           discussions_meta[k].url = "/discussions/10-hello-world.html"

\* C9: for N members, generate_user_data_chunks writes exactly
\* ceil(N/ChunkSize) chunk files, every member ID is in exactly one chunk,
\* the chunks follow the member map's iteration order, and the
\* chunk-assignment map sends every member ID to the index of the chunk
\* file that holds it.
C9_ChunksPartitionMembers ==
    (pc = "about_page") =>
        LET N == Len(members)
            chunks == {name \in WrittenFiles :
                          StartsWithAt(name, 1, "assets/user-chunks/")}
            count == Cardinality(chunks)
            keys(c) == DictKeys(disk[ChunkFile(c)])
            mapping == disk["assets/js/user-chunk-mapping.js"]
        IN /\ count * ChunkSize >= N
           /\ (count - 1) * ChunkSize < N
           /\ chunks = {ChunkFile(c) : c \in 0..(count - 1)}
           /\ \A c \in 0..(count - 1) : TimesWritten(ChunkFile(c)) = 1
           /\ \A i \in 1..N :
                  /\ Cardinality({<<c, k>> \in (0..(count - 1)) \X (1..ChunkSize) :
                         k <= Len(keys(c))
                         /\ keys(c)[k] = ToString(members[i][1])}) = 1
                  /\ keys((i - 1) \div ChunkSize)[((i - 1) % ChunkSize) + 1]
                         = ToString(members[i][1])
                  /\ mapping[i] =
                         <<ToString(members[i][1]), (i - 1) \div ChunkSize>>
           /\ Len(mapping) = N
           /\ \A c \in 0..(count - 1) :
                  Len(keys(c)) = IF (c + 1) * ChunkSize <= N THEN ChunkSize
                                 ELSE N - c * ChunkSize

C9_Witness ==
    /\ pc = "about_page"
    /\ Len(members) = 2 * ChunkSize + 1
    /\ members[1][1] # 2
    /\ {ChunkFile(0), ChunkFile(1), ChunkFile(2)} \subseteq WrittenFiles
    /\ Len(disk[ChunkFile(2)]) = 1
    /\ disk["assets/js/user-chunk-mapping.js"][2 * ChunkSize + 1][2] = 2

\* the sources of the export whose path is missing
MissingSources ==
    {source \in {"members", "categories", "discussions", "comments"} :
        ~export[source].exists}

\* the positions of a full run after load_data has returned
AfterLoadData ==
    {"check_discussions", "no_discussions", "save_processed",
     "discussion_pages", "user_posts", "user_search_index", "user_chunks",
     "about_page", "your_posts_page", "homepage", "search_page", "done"}

\* C10 as stated: in a full run, when the discussions, comments, members or
\* categories path is missing, the run goes on through page generation
\* instead of stopping.
C10_EveryInputDirectoryOptional ==
    (~html_only /\ MissingSources # {}) =>
        pc \notin {"no_discussions", "crashed"}

\* C10, amended: in a full run a missing comments, members or categories
\* path leaves that map empty and the run goes on through page generation;
\* a missing discussions path is skipped by the loader too, but with no
\* discussion loaded the run ends after loading, before the cache is saved
\* and before any page is written.
C10_MissingSourcesSkipped ==
    ~html_only =>
        /\ pc \in {"no_discussions", "crashed"} => discussions = <<>>
        /\ pc = "no_discussions" => WrittenFiles = {}
        /\ (pc \in AfterLoadData /\ discussions = <<>>) =>
               pc \in {"check_discussions", "no_discussions"}
        /\ pc \in AfterLoadData =>
               /\ "members" \in MissingSources => members = <<>>
               /\ "categories" \in MissingSources => categories = <<>>
               /\ "comments" \in MissingSources => comments = <<>>
               /\ "discussions" \in MissingSources => discussions = <<>>

C10_Witness ==
    /\ FullDone
    /\ MissingSources = {"members", "categories", "comments"}
    /\ Len(discussions) = 2
    /\ {"discussions/10-hello-world.html", "index.html", "search.html"}
           \subseteq WrittenFiles

(***************************************************************************)
(* The private-message converter (convert_dms.py).  generate_user_dms      *)
(* loads the members, the conversations and the messages of the export     *)
(* and writes the text files of one user.  A file holds a list of records; *)
(* a text is kept as its lines' fields, in the order of the lines.         *)
(***************************************************************************)
\* the records the loops over the files store, in the order they are read:
\* a record without the key raises and ends its file
RECURSIVE ReadFiles(_, _)
ReadFiles(files, key) ==
    IF files = <<>> THEN <<>>
    ELSE LET batch == Head(files)
             bad == First({i \in 1..Len(batch) : key \notin DOMAIN batch[i]})
         IN (IF bad = 0 THEN batch ELSE SubSeq(batch, 1, bad - 1))
            \o ReadFiles(Tail(files), key)

load_conversation_data(source) ==
    LET read == ReadFiles(source.files, "ConversationID")
    IN DictFrom([i \in 1..Len(read) |-> <<read[i].ConversationID, read[i]>>])

\* a variant that leaves the lists in the order the files were read
LoadMessageDataUnsorted(source) ==
    LET read == ReadFiles(source.files, "ConversationID")
    IN DictFrom([i \in 1..Len(read) |->
           <<read[i].ConversationID,
             SelectSeq(read, LAMBDA m :
                 m.ConversationID = read[i].ConversationID)>>])

\* the messages are appended under their ConversationID, then each list is
\* sorted.  The sort of a list raises when a message has no DateInserted:
\* the lists before it are sorted, that list and those after it are not
load_message_data(source) ==
    LET read == ReadFiles(source.files, "ConversationID")
        lists == DictFrom([i \in 1..Len(read) |->
                     <<read[i].ConversationID,
                       SelectSeq(read, LAMBDA m :
                           m.ConversationID = read[i].ConversationID)>>])
        raises(i) == \E j \in 1..Len(lists[i][2]) :
                         "DateInserted" \notin DOMAIN lists[i][2][j]
        failed == First({i \in 1..Len(lists) : raises(i)})
    IN [i \in 1..Len(lists) |->
           <<lists[i][1],
             IF failed = 0 \/ i < failed
             THEN StableSort(lists[i][2],
                      [a \in 1..Len(lists[i][2]) |->
                          [b \in 1..Len(lists[i][2]) |->
                              StrLess(lists[i][2][a].DateInserted,
                                      lists[i][2][b].DateInserted)]])
             ELSE lists[i][2]>>]

\* datetime.fromisoformat(...).strftime('%Y-%m-%d %H:%M') for a stamp
\* YYYY-MM-DDTHH:MM:SS; a string fromisoformat rejects is returned as it is
format_date(date_string) ==
    LET num(lo, hi) == ParseDigits(SubSeq(date_string, lo, hi))
        iso == /\ Len(date_string) = 19
               /\ \A i \in 1..19 :
                      CASE i \in {5, 8} -> Ch(date_string, i) = "-"
                        [] i = 11 -> Ch(date_string, i) \in {"T", " "}
                        [] i \in {14, 17} -> Ch(date_string, i) = ":"
                        [] OTHER -> Ch(date_string, i) \in Digits
               /\ num(1, 4) >= 1
               /\ num(6, 7) \in 1..12
               /\ num(9, 10) \in 1..(CASE num(6, 7) \in {4, 6, 9, 11} -> 30
                                       [] num(6, 7) = 2 ->
                                              IF /\ num(1, 4) % 4 = 0
                                                 /\ \/ num(1, 4) % 100 # 0
                                                    \/ num(1, 4) % 400 = 0
                                              THEN 29 ELSE 28
                                       [] OTHER -> 31)
               /\ num(12, 13) < 24 /\ num(15, 16) < 60 /\ num(18, 19) < 60
    IN IF iso THEN SubSeq(date_string, 1, 10) \o " "
                   \o SubSeq(date_string, 12, 16)
       ELSE date_string

\* the user ID generate_user_dms makes of its argument: the number that a
\* string of digits denotes, else the ID of the first member of that name
\* (case ignored), else None
ResolveUser(user_identifier, mem) ==
    IF /\ user_identifier # ""
       /\ \A i \in 1..Len(user_identifier) : Ch(user_identifier, i) \in Digits
    THEN PyInt(ParseDigits(user_identifier))
    ELSE LET hit == First({i \in 1..Len(mem) :
                         Lower(mem[i][2]) = Lower(user_identifier)})
         IN IF hit = 0 THEN PyNone ELSE PyInt(mem[hit][1])

\* a variant that takes the conversations the user is the first contributor
\* of
GetUserConversationsStartedBy(user_id, convs, msgs) ==
    LET mine == Where([i \in 1..Len(convs) |->
                    LET contributors ==
                            GetOr(convs[i][2], "Contributors", <<>>)
                    IN contributors # <<>> /\ contributors[1] = user_id])
    IN [k \in 1..Len(mine) |-> convs[mine[k]][2]]

\* the conversations with the user among the contributors, the one with the
\* latest last message first
get_user_conversations(user_id, convs, msgs) ==
    LET mine == Where([i \in 1..Len(convs) |->
                    LET contributors ==
                            GetOr(convs[i][2], "Contributors", <<>>)
                    IN \E k \in 1..Len(contributors) :
                           contributors[k] = user_id])
        user_convos == [k \in 1..Len(mine) |-> convs[mine[k]][2]]
        last_date(conversation) ==
            LET ms == DictGetOr(msgs, conversation.ConversationID, <<>>)
            IN IF ms # <<>> THEN ms[Len(ms)].DateInserted ELSE "0000-00-00"
    IN StableSort(user_convos,
           [i \in 1..Len(user_convos) |-> [j \in 1..Len(user_convos) |->
               StrLess(last_date(user_convos[j]),
                       last_date(user_convos[i]))]])

\* the names of the contributors other than the user
Participants(conversation, user_id, mem) ==
    LET others == SelectSeq(conversation.Contributors,
                            LAMBDA pid : pid # user_id)
    IN [k \in 1..Len(others) |-> get_username(others[k], mem)]

generate_conversation_text(conversation, user_id, msgs, mem) ==
    LET conv_id == conversation.ConversationID
        ms == DictGetOr(msgs, conv_id, <<>>)
    IN [conversation |-> conv_id,
        participants |-> Participants(conversation, user_id, mem),
        total_messages |-> Len(ms),
        messages |-> [i \in 1..Len(ms) |->
            [number |-> i,
             from |-> get_username(ms[i].InsertUserID, mem),
             date |-> format_date(ms[i].DateInserted),
             body |-> Strip(StrReplace(StrReplace(
                          fix_windows_1252_encoding(ms[i].Body),
                          "\r\n", "\n"), "\r", "\n"))]]]

\* the files generate_user_dms writes for the user, in order: one text per
\* conversation, then generate_master_file's text.  A message without Body
\* or InsertUserID raises: the texts before it are written, nothing after
generate_user_dms(user_id, now, convs, msgs, mem) ==
    LET username == get_username(user_id, mem)
        user_convos == get_user_conversations(user_id, convs, msgs)
        user_output_dir == "user-" \o ToString(user_id) \o "-"
                           \o StrReplace(username, " ", "_") \o "/"
        raises(k) ==
            LET ms == DictGetOr(msgs, user_convos[k].ConversationID, <<>>)
            IN \E i \in 1..Len(ms) :
                   ~({"Body", "InsertUserID"} \subseteq DOMAIN ms[i])
        failed == First({k \in 1..Len(user_convos) : raises(k)})
        text(k) == generate_conversation_text(user_convos[k], user_id,
                                              msgs, mem)
        name(k) ==
            LET ps == Participants(user_convos[k], user_id, mem)
                join[n \in 0..Len(ps)] ==
                    IF n = 0 THEN ""
                    ELSE join[n - 1] \o (IF n = 1 THEN "" ELSE "_")
                         \o StrReplace(ps[n], " ", "_")
            IN user_output_dir \o "conversation_"
               \o ToString(user_convos[k].ConversationID) \o "_"
               \o join[Len(ps)] \o ".txt"
        written == IF failed = 0 THEN Len(user_convos) ELSE failed - 1
    IN [raised |-> failed # 0,
        files |->
            [k \in 1..written |-> <<name(k), text(k)>>]
            \o IF failed # 0 THEN <<>>
               ELSE << <<user_output_dir \o "all_conversations_"
                             \o StrReplace(username, " ", "_") \o ".txt",
                         [username |-> username,
                          generated_on |-> now,
                          total_conversations |-> Len(user_convos),
                          conversations |->
                              [k \in 1..Len(user_convos) |-> text(k)]]>> >>]

\* the exports the message converter is run on
DmRuns ==
    LET Garbled == [Unparsable |-> TRUE]
        Member(id, name) == [UserID |-> id, Name |-> name]
        Conversation(id, contributors) ==
            [ConversationID |-> id, Contributors |-> contributors]
        Message(id, conv, body, user, date) ==
            [MessageID |-> id, ConversationID |-> conv, Body |-> body,
             InsertUserID |-> user, DateInserted |-> date]
        Without(rec, fields) == [f \in (DOMAIN rec) \ fields |-> rec[f]]
        Noon == "2020-01-02T12:00:05"
        M1 == Message(1, 1, "hi\r\nthere ", 1, Noon)
        M2 == Message(2, 1, "first", 2, "2020-01-01T09:30:00")
        M3 == Message(3, 1, "tie", 2, Noon)
        M4 == Message(4, 1, " again", 1, Noon)
        M5 == Message(5, 3, "late", 3, "2021-05-06T07:08:09")
        M6 == Message(6, 2, "other", 3, "soon")
        M7 == Message(7, 9, "stray", 1, "2019-01-01T00:00:00")
        Good == [members |-> <<Member(1, "bob"), Member(2, "Al Green")>>,
                 conversations |->
                     << <<Conversation(1, <<1, 2>>),
                          Conversation(2, <<2, 3>>)>>,
                        <<Conversation(3, <<3, 1>>),
                          Conversation(4, <<1, 2, 3>>)>> >>,
                 messages |-> << <<M1, M6, M2, M3>>, <<M5, M4, M7>> >>]
        With(field, files) == [Good EXCEPT ![field] = files]
        Export(e) == [s \in DOMAIN e |-> [exists |-> TRUE, files |-> e[s]]]
    IN << Export(Good),
          Export(With("messages", << <<M4, M3>>, <<M5, M1, M2>> >>)),
          Export(With("messages",
                      << <<M2, Without(M3, {"ConversationID"}), M1>>,
                         <<Garbled>>, <<M5>> >>)),
          Export(With("messages",
                      << <<M5, M1>>, <<Without(M2, {"DateInserted"})>> >>)),
          Export(With("messages",
                      << <<M1, Without(M2, {"Body"}), M5, M6>> >>)),
          Export(With("conversations",
                      << <<Garbled>>,
                         <<Conversation(1, <<1, 2>>),
                           Without(Conversation(5, <<1>>), {"Contributors"}),
                           Without(Conversation(6, <<1>>), {"ConversationID"}),
                           Conversation(3, <<3, 1>>)>> >>)),
          [Export(Good) EXCEPT !.messages = [exists |-> FALSE, files |-> <<>>]],
          [Export(Good) EXCEPT !.members = [exists |-> FALSE, files |-> <<>>],
                               !.conversations =
                                   [exists |-> FALSE, files |-> <<>>]] >>

\* the three loaders at the head of generate_user_dms
LoadDmData ==
    /\ pc = "dm_idle"
    /\ members' = load_member_data(export.members.files, <<>>)
    /\ conversations' = load_conversation_data(export.conversations)
    /\ messages' = load_message_data(export.messages)
    /\ pc' = IF \A i \in 1..Len(messages') :
                  \A j \in 1..Len(messages'[i][2]) :
                      "DateInserted" \in DOMAIN messages'[i][2][j]
             THEN "dm_find_user" ELSE "dm_crashed"
    /\ UNCHANGED <<render_vars, config, export, disk, history, html_only,
                   runs, events, discussions, comments, categories,
                   discussions_meta>>

\* the rest of generate_user_dms, for the arguments it is called with;
\* datetime.now() is any minute
GenerateUserDms ==
    /\ pc = "dm_find_user"
    /\ \E user_identifier \in {"1", "2", "3", "0", "BOB", "al green", "carol"} :
       \E now \in {"2024-01-01 00:00", "2024-06-30 23:59"} :
           LET user_id == ResolveUser(user_identifier, members) IN
           IF ~Truthy(user_id)
           THEN /\ pc' = "dm_no_user"
                /\ UNCHANGED <<disk, events>>
           ELSE LET out == generate_user_dms(user_id.v, now, conversations,
                                             messages, members)
                IN /\ disk' = WriteAll(disk, out.files)
                   /\ events' = events \o Writes(out.files)
                   /\ pc' = IF out.raised THEN "dm_crashed" ELSE "dm_done"
    /\ UNCHANGED <<render_vars, config, dm_maps, export, history, html_only,
                   runs, entity_maps, discussions_meta>>

(***************************************************************************)
(* Specification SpecFaults: runs of convert on exports with damaged       *)
(* files, under several configurations, and on output directories that     *)
(* already hold a cache, and runs of the message converter.  Garbled       *)
(* stands for a file json.load rejects: the loaders catch that error in    *)
(* the handler that catches a missing field, before anything of the file   *)
(* is stored.  A cache file json.load rejects stands with the files that   *)
(* hold a key int() rejects, which _load_processed_data catches in the     *)
(* same handler.                                                           *)
(***************************************************************************)
FaultyRuns ==
    LET Garbled == [Unparsable |-> TRUE]
        Member(id, name) == [UserID |-> id, Name |-> name]
        Category(id, name) == [CategoryID |-> id, Name |-> name]
        Discussion(id, name, body, user, category, date) ==
            [DiscussionID |-> id, Name |-> name, Body |-> body,
             InsertUserID |-> user, CategoryID |-> category,
             DateInserted |-> date, CountViews |-> 3]
        Comment(id, disc, body, user, date) ==
            [CommentID |-> id, DiscussionID |-> disc, Body |-> body,
             InsertUserID |-> user, DateInserted |-> date]
        Without(rec, fields) == [f \in (DOMAIN rec) \ fields |-> rec[f]]
        D10 == Discussion(10, "Hello, World!", "Hi", 1, 1, 2)
        D7 == Discussion(7, "Foo Bar", "a < b", 3, 5, 4)
        D4 == Discussion(4, "Misc", "m", 1, 0, 5)
        D8 == Discussion(8, "Staff", "s", 1, 21, 6)
        C5 == Comment(5, 10, "no", 2, 6)
        C9 == Comment(9, 7, "ok", 2, 9)
        Good == [members |-> <<Member(1, "bob")>>,
                 categories |-> <<Category(1, "General"), Category(0, "Zero"),
                                  Category(21, "Moderators")>>,
                 discussions |-> <<D10, D7>>,
                 comments |-> << <<Comment(6, 10, "yes", 1, 8), C5>>, <<C9>> >>]
        With(field, files) == [Good EXCEPT ![field] = files]
        Export(e) == [s \in DOMAIN e |-> [exists |-> TRUE, files |-> e[s]]]
        Run(e, excluded, d) ==
            [export |-> Export(e),
             config |-> [excluded_categories |-> excluded,
                         homepage_page_size |-> HomepagePageSize],
             disk |-> d]
        \* the output directory of an earlier full run, as far as the cache
        L10 == [f \in DOMAIN D10 \cup {"CategoryName"} |->
                   IF f = "CategoryName" THEN "General" ELSE D10[f]]
        L7 == [f \in DOMAIN D7 \cup {"CategoryName"} |->
                   IF f = "CategoryName" THEN "Uncategorized" ELSE D7[f]]
        Cache(discs, coms, mem, cats) ==
            WriteAll(<<>>, << <<CacheFiles[1], discs>>, <<CacheFiles[2], coms>>,
                              <<CacheFiles[3], mem>>, <<CacheFiles[4], cats>> >>)
        Discs == << <<"10", L10>> >>
        Coms == << <<"10", <<C5>> >> >>
        Mem == << <<"1", "bob">> >>
        Cats == << <<"1", Category(1, "General")>> >>
        Stale(d, files) == [f \in files |-> d[f]]
        Valid == Cache(Discs, Coms, Mem, Cats)
    IN << Run(Good, {21, 22}, <<>>),
          \* member files
          Run(With("members", <<Garbled, Member(1, "bob")>>), {21, 22}, <<>>),
          Run(With("members", <<Without(Member(2, "Al"), {"Name"}),
                                Without(Member(3, "Cy"), {"UserID"}),
                                Member(1, "bob")>>), {21, 22}, <<>>),
          \* discussion files
          Run(With("discussions", <<D10, Garbled, D7>>), {21, 22}, <<>>),
          Run(With("discussions",
                   <<D10, Without(D4, {"DiscussionID"}), D7>>), {21, 22}, <<>>),
          Run(With("discussions",
                   <<D10, Without(D4, {"Name"}), D7>>), {21, 22}, <<>>),
          Run(With("discussions", <<Without(D4, {"Body"}), D7>>),
              {21, 22}, <<>>),
          Run(With("discussions",
                   <<D10, Without(D4, {"CategoryID"}), D4, D8>>),
              {21, 22}, <<>>),
          Run(With("discussions",
                   <<Without(D8, {"DiscussionID"}), Without(D8, {"Name"}),
                     D7>>), {21, 22}, <<>>),
          \* comment files
          Run(With("comments", << <<Garbled>>, <<C9>> >>), {21, 22}, <<>>),
          Run(With("comments",
                   << <<C5, Without(Comment(3, 10, "x", 1, 7),
                                    {"DiscussionID"}),
                        Comment(6, 10, "yes", 1, 8)>>, <<C9>> >>),
              {21, 22}, <<>>),
          Run(With("comments",
                   << <<C9>>, <<Without(C5, {"DateInserted"})>> >>),
              {21, 22}, <<>>),
          Run(With("comments", << <<Without(C5, {"Body"}), C9>> >>),
              {21, 22}, <<>>),
          Run(With("comments", << <<Without(C5, {"CommentID"})>> >>),
              {21, 22}, <<>>),
          Run(With("comments",
                   << <<Comment(6, 10, "b", 1, 6), Comment(5, 10, "a", 2, 6),
                        Comment(4, 10, "c", 2, 2), Comment(9, 8, "staff", 1, 1),
                        Comment(2, 99, "lost", 1, 1)>>,
                      <<Comment(3, 10, "d", 1, 6)>> >>), {21, 22}, <<>>),
          \* configurations
          Run(With("discussions", <<D10, D4, D7, D8>>), {21, 22}, <<>>),
          Run(With("discussions", <<D10, D4, D7, D8>>), {1}, <<>>),
          Run(With("discussions", <<D10, D4, D7, D8>>), {}, <<>>),
          Run(With("discussions", <<D10, D4, D7, D8>>), {0, 5, 21}, <<>>),
          \* caches
          Run(Good, {21, 22}, Valid),
          Run(Good, {21, 22},
              Stale(Valid, {CacheFiles[1], CacheFiles[3], CacheFiles[4]})),
          Run(Good, {21, 22},
              Stale(Valid, {CacheFiles[1], CacheFiles[2], CacheFiles[3]})),
          Run(Good, {21, 22},
              Cache(Discs, Coms, Mem \o << <<"x2", "Al">> >>, Cats)),
          Run(Good, {21, 22},
              Cache(Discs \o << <<"7.0", L7>> >>, Coms, Mem, Cats)) >>

InitFaults ==
    /\ \/ \E i \in 1..Len(FaultyRuns) :
              /\ pc = "idle"
              /\ export = FaultyRuns[i].export
              /\ config = FaultyRuns[i].config
              /\ disk = FaultyRuns[i].disk
       \/ \E i \in 1..Len(DmRuns) :
              /\ pc = "dm_idle"
              /\ export = DmRuns[i]
              /\ config = [excluded_categories |-> {},
                           homepage_page_size |-> HomepagePageSize]
              /\ disk = <<>>
    /\ saved = <<>>
    /\ collected = <<>>
    /\ html_only = FALSE
    /\ runs = 0
    /\ events = <<>>
    /\ discussions = <<>>
    /\ comments = <<>>
    /\ members = <<>>
    /\ categories = <<>>
    /\ discussions_meta = <<>>
    /\ conversations = <<>>
    /\ messages = <<>>
    /\ NoRender

NextFaults ==
    \/ NextRun
    \/ LoadDmData
    \/ GenerateUserDms

SpecFaults == InitFaults /\ [][NextFaults]_vars

(***************************************************************************)
(* Properties of runs on damaged input.                                    *)
(***************************************************************************)
\* the records of the export that have every field the converter reads
WellFormed(rec, kind) ==
    CASE kind = "member" -> {"UserID", "Name"} \subseteq DOMAIN rec
      [] kind = "discussion" ->
             {"DiscussionID", "Name", "Body", "InsertUserID", "DateInserted",
              "CountViews"} \subseteq DOMAIN rec
      [] kind = "comment" ->
             {"CommentID", "DiscussionID", "Body", "InsertUserID",
              "DateInserted"} \subseteq DOMAIN rec

\* C11: in a full run a malformed record (a file json.load rejects, or a
\* discussion, comment or member without a required field) makes the run
\* skip that file or record only: the run does not abort, and after
\* ingestion every well-formed member, every well-formed discussion of a
\* category that is not excluded and every well-formed comment of a stored
\* discussion is in its map.
C11_MalformedRecordOnlySkipped ==
    (~html_only /\ pc # "idle") =>
        /\ pc # "crashed"
        /\ pc \in AfterLoadData =>
               /\ \A i \in 1..Len(export.members.files) :
                      LET m == export.members.files[i] IN
                      WellFormed(m, "member") => DictHas(members, m.UserID)
               /\ \A i \in 1..Len(export.discussions.files) :
                      LET d == export.discussions.files[i] IN
                      (WellFormed(d, "discussion")
                       /\ GetOr(d, "CategoryID", -1) \notin ExcludedCategories)
                          => DictHas(discussions, d.DiscussionID)
               /\ \A i \in 1..Len(export.comments.files) :
                      \A j \in 1..Len(export.comments.files[i]) :
                          LET c == export.comments.files[i][j] IN
                          (WellFormed(c, "comment")
                           /\ DictHas(discussions, c.DiscussionID))
                              => \E k \in 1..Len(DictGetOr(comments,
                                                 c.DiscussionID, <<>>)) :
                                     DictGet(comments, c.DiscussionID)[k] = c

\* C12: an incremental (html-only) run whose cache cannot be read (the
\* cache or one of its files is missing, or a file holds a key that is no
\* integer numeral or cannot be parsed) stops at the load and writes no
\* file at all: no homepage, search, about or your-posts page; and the
\* load stops a run for no other reason.
C12_CacheReadFailureIsFatal ==
    html_only =>
        /\ ~_load_processed_data(disk, entity_maps).ok =>
               /\ pc \in {"load_processed", "no_cache"}
               /\ WrittenFiles = {}
        /\ pc = "no_cache" => ~_load_processed_data(disk, entity_maps).ok

C12_Witness ==
    /\ html_only
    /\ pc = "no_cache"
    /\ CacheFiles[3] \in DOMAIN disk
    /\ Len(disk[CacheFiles[3]]) = 2
    /\ disk[CacheFiles[3]][2][1] = "x2"
    /\ DictKeys(discussions) = <<10>>
    /\ members = <<>>
    /\ WrittenFiles = {}

\* C13: after ingestion in a full run every key of the comment map is a key
\* of the discussion map, every stored comment is stored under the key that
\* is its DiscussionID and in no other place, and so a comment of a
\* discussion that was excluded or not loaded is in no list.
C13_CommentsBelongToStoredDiscussions ==
    (~html_only /\ pc \in AfterLoadData) =>
        /\ \A i \in 1..Len(comments) :
               /\ DictHas(discussions, comments[i][1])
               /\ \A j \in 1..Len(comments[i][2]) :
                      comments[i][2][j].DiscussionID = comments[i][1]
        /\ \A i \in 1..Len(export.comments.files) :
               \A j \in 1..Len(export.comments.files[i]) :
                   LET c == export.comments.files[i][j] IN
                   Cardinality({<<k, e>> \in (1..Len(comments)) \X (1..5) :
                                   /\ e <= Len(comments[k][2])
                                   /\ comments[k][2][e] = c})
                       <= IF /\ "DiscussionID" \in DOMAIN c
                             /\ DictHas(discussions, c.DiscussionID)
                          THEN 1 ELSE 0

C13_Witness ==
    /\ ~html_only
    /\ pc = "save_processed"
    /\ DictKeys(discussions) = <<10>>
    /\ DictKeys(comments) = <<10>>
    /\ Len(DictGet(comments, 10)) = 2
    /\ \E i \in 1..Len(export.comments.files) :
           \E j \in 1..Len(export.comments.files[i]) :
               export.comments.files[i][j].DiscussionID = 3
    /\ \E i \in 1..Len(export.discussions.files) :
           export.discussions.files[i].DiscussionID = 3
\* the discussion files of the export whose category is in the configured set
ExcludedFiles ==
    {i \in 1..Len(export.discussions.files) :
        LET d == export.discussions.files[i] IN
        /\ "CategoryID" \in DOMAIN d
        /\ d.CategoryID \in config.excluded_categories}

\* C14: whatever set of category IDs is configured as excluded, after
\* ingestion no stored discussion has its category in the set, and no
\* metadata record, no page written by the run and no search record belongs
\* to a discussion of such a category.
C14_ExcludedCategoriesNeverStored ==
    (~html_only /\ pc \in AfterLoadData) =>
        /\ \A i \in 1..Len(discussions) :
               "CategoryID" \in DOMAIN discussions[i][2] =>
                   discussions[i][2].CategoryID
                       \notin config.excluded_categories
        /\ \A i \in ExcludedFiles :
               LET d == export.discussions.files[i] IN
               /\ "DiscussionID" \in DOMAIN d =>
                      /\ ~DictHas(discussions, d.DiscussionID)
                      /\ \A k \in 1..Len(discussions_meta) :
                             discussions_meta[k].id # d.DiscussionID
               /\ {"DiscussionID", "Name"} \subseteq DOMAIN d =>
                      DiscussionFile(d) \notin WrittenFiles
        /\ pc = "done" =>
               \A k \in 1..Len(disk["assets/js/search-data.js"]) :
                   LET rec == disk["assets/js/search-data.js"][k] IN
                   /\ rec.category_id.ty = "int" =>
                          rec.category_id.v \notin config.excluded_categories
                   /\ \A i \in ExcludedFiles :
                          "DiscussionID" \in DOMAIN export.discussions.files[i]
                          => rec.id # "discussion-" \o ToString(
                                 export.discussions.files[i].DiscussionID)

C14_Witness ==
    /\ ~html_only
    /\ pc = "done"
    /\ config.excluded_categories = {0, 5, 21}
    /\ Cardinality(ExcludedFiles) = 3
    /\ DictKeys(discussions) = <<10>>
    /\ Len(discussions_meta) = 1
    /\ Len(disk["assets/js/search-data.js"]) = 1
\* the positions of convert from which a generator (or the cache writer)
\* runs: after load_data in a full run, after _load_processed_data in an
\* incremental one
GenerationPositions ==
    {"save_processed", "discussion_pages", "rebuild_meta", "user_posts",
     "user_search_index", "user_chunks", "about_page", "your_posts_page",
     "homepage", "search_page"}

\* C15: in a full and in an incremental run, no step of page generation
\* changes the discussion, comment, member or category map: no entry is
\* added, removed or modified between the end of ingestion (or of the cache
\* load) and the end of the run.
C15_GenerationLeavesEntityMapsUnchanged ==
    [][(pc \in GenerationPositions) => (entity_maps' = entity_maps)]_vars

C15_Witness ==
    /\ pc = "done"
    /\ html_only
    /\ runs = 2
    /\ DictKeys(discussions) = <<10, 7>>
    /\ DictKeys(comments) # <<>>
    /\ members # <<>>
    /\ categories # <<>>
    /\ {"index.html", "search.html", "about.html"} \subseteq WrittenFiles
\* record a is read from the files before record b
ReadEarlier(files, a, b) ==
    \E i, k \in 1..Len(files) :
        \E j \in 1..Len(files[i]), l \in 1..Len(files[k]) :
            /\ files[i][j] = a
            /\ files[k][l] = b
            /\ i < k \/ (i = k /\ j < l)

\* the list is in ascending order of DateInserted, and entries of the same
\* DateInserted are in the order in which they were read
InTimestampOrder(list, files, Before(_, _)) ==
    \A a, b \in 1..Len(list) :
        a < b =>
            /\ ~Before(list[b].DateInserted, list[a].DateInserted)
            /\ ~Before(list[a].DateInserted, list[b].DateInserted)
                   => ReadEarlier(files, list[a], list[b])

\* the positions of the message converter after its loaders have returned
AfterLoadDms == {"dm_find_user", "dm_no_user", "dm_done"}

\* C16: after ingestion the comments of every discussion and the messages
\* of every conversation are stored in ascending order of their creation
\* timestamp, entries with equal timestamps in input order, and the
\* discussion page and the message texts list them in the stored order.
C16_EntriesInTimestampOrder ==
    /\ (~html_only /\ pc \in AfterLoadData) =>
           /\ \A i \in 1..Len(comments) :
                  InTimestampOrder(comments[i][2], export.comments.files,
                                   LAMBDA x, y : x < y)
           /\ \A i \in 1..Len(discussions_meta) :
                  LET stored == DictGetOr(comments, discussions_meta[i].id,
                                          <<>>)
                      page == disk[DiscussionFile(
                                  DictGet(discussions, discussions_meta[i].id))]
                  IN /\ Len(page.comments_html) = Len(stored)
                     /\ \A e \in 1..Len(stored) :
                            /\ page.comments_html[e].id
                                   = "comment-" \o ToString(stored[e].CommentID)
                            /\ page.comments_html[e].date
                                   = stored[e].DateInserted
    /\ pc \in AfterLoadDms =>
           /\ \A i \in 1..Len(messages) :
                  InTimestampOrder(messages[i][2], export.messages.files,
                                   StrLess)
           /\ \A name \in WrittenFiles :
                  LET texts == IF "conversations" \in DOMAIN disk[name]
                               THEN disk[name].conversations
                               ELSE <<disk[name]>>
                  IN \A k \in 1..Len(texts) :
                         LET stored == DictGetOr(messages,
                                           texts[k].conversation, <<>>)
                         IN /\ Len(texts[k].messages) = Len(stored)
                            /\ \A e \in 1..Len(stored) :
                                   /\ texts[k].messages[e].number = e
                                   /\ texts[k].messages[e].date
                                          = format_date(stored[e].DateInserted)
                                   /\ texts[k].messages[e].from
                                          = get_username(
                                                stored[e].InsertUserID, members)

C16_Witness ==
    /\ ~html_only
    /\ pc = "done"
    /\ Len(export.comments.files) = 2
    /\ Len(export.comments.files[1]) = 5
    /\ export.comments.files[1][1].DateInserted
           = export.comments.files[1][2].DateInserted
    /\ export.comments.files[1][3].DateInserted
           < export.comments.files[1][1].DateInserted
    /\ DictHas(comments, 10)
    /\ Len(DictGet(comments, 10)) = 4
    /\ [e \in 1..4 |-> DictGet(comments, 10)[e].CommentID] = <<4, 6, 5, 3>>
    /\ "discussions/10-hello-world.html" \in WrittenFiles
    /\ Len(disk["discussions/10-hello-world.html"].comments_html) = 4
\* the name the category map holds for the ID, "Uncategorized" when it
\* holds none
StoredCategoryName(category_id) ==
    IF category_id.ty = "int" /\ DictHas(categories, category_id.v)
    THEN DictGet(categories, category_id.v).Name
    ELSE "Uncategorized"

\* the name the member map holds for the ID, "User {id}" when it holds none
StoredUsername(user_id) ==
    IF DictHas(members, user_id) THEN DictGet(members, user_id)
    ELSE "User " \o ToString(user_id)

\* C17 as stated: wherever a run resolves a category ID or a member ID, the
\* result is the stored name when the ID is in the map and the fallback
\* ("Uncategorized", "User {id}") when it is not, and an absent ID does not
\* stop the run.
C17_LookupsTotalWithFallback ==
    (~html_only /\ pc \in AfterLoadData) =>
        /\ \A i \in 1..Len(discussions) :
               discussions[i][2].CategoryName
                   = StoredCategoryName(CategoryOf(discussions[i][2]))
        /\ \A i \in 1..Len(discussions_meta) :
               discussions_meta[i].category_name
                   = StoredCategoryName(discussions_meta[i].category_id)
        /\ pc = "done" =>
               \A i \in 1..Len(discussions_meta) :
                   LET rec == disk["assets/js/search-data.js"][i]
                       discussion == DictGet(discussions, discussions_meta[i].id)
                   IN /\ rec.category_name
                             = StoredCategoryName(CategoryOf(discussion))
                      /\ rec.author = StoredUsername(discussion.InsertUserID)
(***************************************************************************)
(* Specification SpecSlug: an incremental run on an output directory whose *)
(* cache holds two discussions; the titles are made of at most             *)
(* MaxTitleParts parts.  The run loads the cache and rebuilds the metadata *)
(* records, slug included.                                                 *)
(***************************************************************************)
MaxTitleParts == 3

InitSlug ==
    LET Parts == {"He_", "ABCDEFGHIJKLMNOPQRSTUVWXY01234", " -- ", "-", "!",
                  "\t"}
        Join(ps) ==
            LET join[n \in 0..Len(ps)] ==
                    IF n = 0 THEN "" ELSE join[n - 1] \o ps[n]
            IN join[Len(ps)]
        Titles == {Join(ps) :
                      ps \in UNION {[1..n -> Parts] : n \in 0..MaxTitleParts}}
        Discussion(id, name) ==
            [DiscussionID |-> id, Name |-> name, Body |-> "b",
             InsertUserID |-> 1, CategoryID |-> 1, DateInserted |-> id,
             CountViews |-> 0, CategoryName |-> "Uncategorized"]
    IN /\ pc = "load_processed"
       /\ html_only = TRUE
       /\ runs = 1
       /\ \E first \in Titles, second \in {"He_", "a  B"} :
              disk = _save_processed_data(<<>>,
                         << << <<1, Discussion(1, first)>>,
                               <<2, Discussion(2, second)>> >>,
                            <<>>, <<>>, <<>> >>)
       /\ config = [excluded_categories |-> {21, 22},
                 homepage_page_size |-> HomepagePageSize]
       /\ export = <<>>
       /\ saved = <<>>
       /\ collected = <<>>
       /\ events = <<>>
       /\ discussions = <<>>
       /\ comments = <<>>
       /\ members = <<>>
       /\ categories = <<>>
       /\ discussions_meta = <<>>
       /\ conversations = <<>>
       /\ messages = <<>>
       /\ NoRender

NextSlug ==
    \/ LoadProcessedData
    \/ RebuildMeta

SpecSlug == InitSlug /\ [][NextSlug]_vars

\* C18: the slug of every title is lowercase, at most 50 characters long,
\* made of word characters and hyphens only (so without whitespace), holds
\* no two adjacent hyphens, and two discussions of the same title get the
\* same slug.
C18_SlugShape ==
    \A i \in 1..Len(discussions_meta) :
        LET slug == discussions_meta[i].slug IN
        /\ Len(slug) <= 50
        /\ ~Contains(slug, "--")
        /\ \A k \in 1..Len(slug) :
               /\ Ch(slug, k) \notin WhiteSpace
               /\ ~Contains(UpperLetters, Ch(slug, k))
               /\ IsWordCh(Ch(slug, k)) \/ Ch(slug, k) = "-"
        /\ \A j \in 1..Len(discussions_meta) :
               discussions_meta[i].title = discussions_meta[j].title
                   => discussions_meta[j].slug = slug

C18_Witness ==
    /\ pc = "about_page"
    /\ Len(discussions_meta) = 2
    /\ discussions_meta[1].title
           = "ABCDEFGHIJKLMNOPQRSTUVWXY01234 -- ABCDEFGHIJKLMNOPQRSTUVWXY01234"
    /\ discussions_meta[1].slug
           = "abcdefghijklmnopqrstuvwxy01234-abcdefghijklmnopqrs"
    /\ discussions_meta[2].slug = "a-b"
(***************************************************************************)
(* Specification SpecBody: convert_plush_bbcode on the body of discussion  *)
(* 10, made of at most MaxPieces pieces that are plain text (with the      *)
(* three line endings, and with characters that look like markup but are   *)
(* none) or a code block.                                                  *)
(***************************************************************************)
InitBody ==
    LET Piece(kind, body, text) ==
            [kind |-> kind, user |-> "", target |-> "", body |-> body,
             text |-> text]
        BodyPieces ==
            {Piece("text", "", t) :
                t \in {"a\r\nb\rc", "\n", "\r", "x < y & z", "@bob [1] "}}
            \cup {Piece("code", b, "[code]" \o b \o "[/code]") :
                     b \in {"x = 1", "[b]x[/b]", "[i]x[/i]", "[url]u[/url]",
                            "[img]p[/img]", "[media]m[/media]", "@\"bob\"",
                            "[quote]q[/quote]", "a\nb"}}
    IN /\ pc = "render_call"
       /\ pieces \in UNION {[1..n -> BodyPieces] : n \in 0..MaxPieces}
       /\ raw = JoinPieces(pieces)
       /\ discussions = << <<10, [Name |-> "Hello, World!"]>> >>
       /\ current_discussion_id = 10
       /\ members = << <<1, "bob">> >>
       /\ html = ""
       /\ comments = <<>>
       /\ categories = <<>>
       /\ NoRun

SpecBody == InitBody /\ [][NextRender]_vars

\* the text with every line ending (CRLF, CR or LF) replaced by the break
\* marker and one LF
RECURSIVE WithBreakMarkers(_)
WithBreakMarkers(s) ==
    IF s = "" THEN ""
    ELSE IF StartsWithAt(s, 1, "\r\n")
    THEN "<br>\n" \o WithBreakMarkers(SubSeq(s, 3, Len(s)))
    ELSE IF Ch(s, 1) \in {"\r", "\n"}
    THEN "<br>\n" \o WithBreakMarkers(Tail(s))
    ELSE Ch(s, 1) \o WithBreakMarkers(Tail(s))

\* C19: the rendering of a body without markup is the body with every line
\* ending (CRLF, CR or LF) replaced by the break marker and one LF, and
\* nothing else changed; the empty body gives the empty string.
C19_PlainBodyOnlyGetsBreakMarkers ==
    (pc = "render_done" /\ \A i \in 1..Len(pieces) : pieces[i].kind = "text")
        => html = WithBreakMarkers(raw)

C19_Witness ==
    /\ pc = "render_done"
    /\ raw = "a\r\nb\rc\n"
    /\ html = "a<br>\nb<br>\nc<br>\n"

\* C20 as stated: the body of every code block stands unchanged between the
\* pre/code tags of the output, whatever tags it holds.
C20_CodeBlockBodyVerbatim ==
    pc = "render_done" =>
        \A i \in 1..Len(pieces) :
            pieces[i].kind = "code" =>
                Contains(html, "<pre><code>" \o pieces[i].body
                               \o "</code></pre>")
(***************************************************************************)
(* Specification SpecMarkup: convert_plush_bbcode on texts of four         *)
(* families, each bounded by MaxPieces: one list (an opening tag, the text *)
(* before the first item delimiter, the items, the closing tag); user      *)
(* mentions, for several member maps; quote tags with a username and an    *)
(* ID, alone and inside the body of another quote; opening tags without a  *)
(* closing tag next to whole tags.                                         *)
(***************************************************************************)
InitMarkup ==
    LET Piece(kind, user, target, body, text) ==
            [kind |-> kind, user |-> user, target |-> target, body |-> body,
             text |-> text]
        Plain == Piece("text", "", "", "", "I agree.")
        UpTo(pool) == UNION {[1..n -> pool] : n \in 0..MaxPieces}
        \* body: the item as it is expected in the list, "" when dropped
        ListOpens ==
            {Piece("olist", "", t, "", "[list=" \o t \o "]") :
                t \in {"1", "a", "A", "i", "I", "x", "0", "disc"}}
            \cup {Piece("ulist", "", "", "", "[list]")}
        Leads == {Piece("lead", "", "", "", ""),
                  Piece("lead", "", "", "lead", "lead\r\n")}
        Items == {Piece("item", "", "", "one", "[*]one"),
                  Piece("item", "", "", "two", "[*] two \r\n"),
                  Piece("item", "", "", "", "[*]"),
                  Piece("item", "", "", "", "[*] \r\n\t"),
                  Piece("item", "", "", "ab", "[*]a\r\nb")}
        ListClose == Piece("list_close", "", "", "", "[/list]")
        Mentions ==
            {Piece("mention", u, "", "", "@\"" \o u \o "\"") :
                u \in {"bob", "Bob", "al green", "carol"}}
        MemberMaps ==
            { << <<1, "bob">> >>,
              << <<0, "bob">> >>,
              << <<2, "Bob">>, <<1, "bob">> >>,
              << <<5, "bob">>, <<1, "bob">>, <<3, "al green">> >>,
              << <<3, "carol">>, <<0, "al green">> >> }
        \* user, target: the quote tag with a username and an ID
        Quotes ==
            {Piece("cquote", "bob", t, "so\ntrue",
                   "[quote=\"bob;" \o t \o "\"]so\ntrue[/quote]") :
                t \in {"5", "d7"}}
            \cup {Piece("nested", "bob", "5", "y",
                        outer \o "x[quote=\"bob;5\"]y[/quote]z[/quote]") :
                     outer \in {"[quote=\"al;6\"]", "[quote=\"al\"]",
                                "[quote]"}}
        \* body: the opening tag
        Opens ==
            {Piece("open", "", "", t, t \o "x") :
                t \in {"[quote=\"bob;d7\"]", "[quote=\"bob\"]", "[quote]",
                       "[b]", "[i]", "[u]", "[url=http://a.b]", "[url]",
                       "[media]", "[img]", "[code]", "[list=1]", "[list]"}}
        Wholes ==
            {Piece("whole", "", "", "", t) :
                t \in {"[quote]q[/quote]", "[b]x[/b]", "[url]u[/url]",
                       "[code]c[/code]", "[list][*]l[/list]"}}
    IN /\ pc = "render_call"
       /\ \/ /\ \E open \in ListOpens, lead \in Leads, items \in UpTo(Items) :
                    pieces = <<open, lead>> \o items \o <<ListClose>>
             /\ members = << <<1, "bob">> >>
          \/ /\ pieces \in UpTo(Mentions \cup {Plain})
             /\ members \in MemberMaps
          \/ /\ pieces \in UpTo(Quotes \cup {Plain})
             /\ members = << <<1, "bob">> >>
          \/ /\ pieces \in UpTo(Opens \cup Wholes \cup {Plain})
             /\ members = << <<1, "bob">> >>
       /\ raw = JoinPieces(pieces)
       /\ discussions = << <<10, [Name |-> "Hello, World!"]>>,
                           <<7, [Name |-> "Foo Bar"]>> >>
       /\ current_discussion_id = 10
       /\ html = ""
       /\ comments = <<>>
       /\ categories = <<>>
       /\ NoRun

SpecMarkup == InitMarkup /\ [][NextRender]_vars

IsList == Len(pieces) >= 3 /\ pieces[1].kind \in {"olist", "ulist"}

\* C21: an ordered list whose style token is "1", "a", "A", "i" or "I" is
\* rendered as an ol element typed with that token; with every other token
\* it is rendered as an ol element without a type.
C21_OrderedListTypedByRecognizedToken ==
    (pc = "render_done" /\ IsList /\ pieces[1].kind = "olist") =>
        LET token == pieces[1].target IN
        /\ SubSeq(html, Len(html) - 4, Len(html)) = "</ol>"
        /\ IF token \in {"1", "a", "A", "i", "I"}
           THEN /\ StartsWithAt(html, 1, "<ol type=\"" \o token \o "\">")
                /\ ~Contains(html, "<ol>")
           ELSE /\ StartsWithAt(html, 1, "<ol>")
                /\ ~Contains(html, "type=")

C21_Witness ==
    /\ pc = "render_done"
    /\ raw = "[list=a][*]one[*] two \r\n[/list]"
    /\ html = "<ol type=\"a\"><li>one</li><li>two</li></ol>"

\* the list-item elements of the segments that are not dropped, in order
RECURSIVE ExpectedItems(_)
ExpectedItems(segments) ==
    IF segments = <<>> THEN ""
    ELSE (IF Head(segments).body = "" THEN ""
          ELSE "<li>" \o Head(segments).body \o "</li>")
         \o ExpectedItems(Tail(segments))

\* C22: a list of either form holds one li element per segment of its body
\* that is not empty once break markers are removed and it is trimmed, in
\* the order of the segments, and nothing else; a body whose segments are
\* all empty gives a list element without items.
C22_OneItemPerNonEmptySegment ==
    (pc = "render_done" /\ IsList) =>
        LET items == ExpectedItems(SubSeq(pieces, 2, Len(pieces) - 1)) IN
        IF pieces[1].kind = "ulist"
        THEN html = "<ul>" \o items \o "</ul>"
        ELSE \E open \in {"<ol>", "<ol type=\"" \o pieces[1].target \o "\">"} :
                 html = open \o items \o "</ol>"

C22_Witness ==
    /\ pc = "render_done"
    /\ raw = "[list]lead\r\n[*] \r\n\t[*] two \r\n[/list]"
    /\ html = "<ul><li>lead</li><li>two</li></ul>"

\* a list whose only item delimiter is followed by nothing
C22_EmptyListWitness ==
    /\ pc = "render_done"
    /\ raw = "[list][*][/list]"
    /\ html = "<ul></ul>"
(***************************************************************************)
(* Specification SpecHomepage: generate_homepage on the metadata records   *)
(* of up to MaxMetaRecords discussions, collected in the order of their    *)
(* IDs, whose dates may coincide, for a configured page size of 1 to       *)
(* MaxPageSize.                                                            *)
(***************************************************************************)
MaxMetaRecords == 4
MaxPageSize == 3

InitHomepage ==
    LET Meta(i, date) ==
            [id |-> i,
             title |-> "T" \o ToString(i),
             date |-> date,
             slug |-> "t" \o ToString(i),
             url |-> "/discussions/" \o ToString(i) \o "-t" \o ToString(i)
                     \o ".html",
             comment_count |-> 0,
             author_id |-> 1,
             category_id |-> PyInt(1),
             category_name |-> "General"]
    IN /\ pc = "homepage"
       /\ \E n \in 0..MaxMetaRecords :
              \E dates \in [1..n -> {1, 2, 3}] :
                  discussions_meta = [i \in 1..n |-> Meta(i, dates[i])]
       /\ \E page_size \in 1..MaxPageSize :
              config = [excluded_categories |-> {21, 22},
                        homepage_page_size |-> page_size]
       /\ members = << <<1, "bob">> >>
       /\ categories = << <<1, [CategoryID |-> 1, Name |-> "General"]>> >>
       /\ discussions = <<>>
       /\ comments = <<>>
       /\ export = <<>>
       /\ disk = <<>>
       /\ saved = <<>>
       /\ collected = <<>>
       /\ html_only = FALSE
       /\ runs = 1
       /\ events = <<>>
       /\ conversations = <<>>
       /\ messages = <<>>
       /\ NoRender

SpecHomepage == InitHomepage /\ [][GenerateHomepage]_vars

\* the file of the k-th homepage page, k counted from 1
HomepageFile(k) ==
    IF k = 1 THEN "index.html" ELSE "page-" \o ToString(k) \o ".html"

\* the homepage files the run has written
HomepageWritten ==
    {name \in WrittenFiles :
        name = "index.html" \/ StartsWithAt(name, 1, "page-")}

HomepageDone == pc = "search_page"

\* C23: generate_homepage lists the N metadata records by descending date,
\* records of the same date in the order they had, on ceil(N / page_size)
\* pages; page k holds the records k*page_size - page_size + 1 to
\* k*page_size of that order (so at most page_size records, and every
\* record on exactly one page); page 1 is index.html, page k >= 2 is
\* page-k.html.
C23_HomepagePartitionsSortedRecords ==
    HomepageDone =>
        LET N == Len(discussions_meta)
            page_size == config.homepage_page_size
            total == Cardinality(HomepageWritten)
            listed(k) == disk[HomepageFile(k)].discussions_list
        IN /\ {discussions_meta[i].id : i \in 1..N} = 1..N
           /\ \A i, j \in 1..N :
                  i < j =>
                      \/ discussions_meta[i].date > discussions_meta[j].date
                      \/ /\ discussions_meta[i].date = discussions_meta[j].date
                         /\ discussions_meta[i].id < discussions_meta[j].id
           /\ total * page_size >= N
           /\ (total - 1) * page_size < N \/ (N = 0 /\ total = 0)
           /\ HomepageWritten = {HomepageFile(k) : k \in 1..total}
           /\ \A k \in 1..total :
                  /\ TimesWritten(HomepageFile(k)) = 1
                  /\ Len(listed(k)) <= page_size
                  /\ Len(listed(k)) >= 1
                  /\ \A e \in 1..Len(listed(k)) :
                         /\ (k - 1) * page_size + e <= N
                         /\ listed(k)[e].href
                                = discussions_meta[(k - 1) * page_size + e].url
           /\ \A i \in 1..N :
                  \E k \in 1..total :
                      /\ i - (k - 1) * page_size \in 1..Len(listed(k))

\* the records of dates 1, 3, 1, 3 on pages of three
C23_Witness ==
    /\ HomepageDone
    /\ config.homepage_page_size = 3
    /\ Len(discussions_meta) = 4
    /\ [i \in 1..4 |-> discussions_meta[i].id] = <<2, 4, 1, 3>>
    /\ HomepageWritten = {"index.html", "page-2.html"}
    /\ [e \in 1..3 |-> disk["index.html"].discussions_list[e].href]
           = <<"/discussions/2-t2.html", "/discussions/4-t4.html",
               "/discussions/1-t1.html">>
    /\ Len(disk["page-2.html"].discussions_list) = 1
    /\ disk["page-2.html"].discussions_list[1].href = "/discussions/3-t3.html"

\* C24: on page p (counted from 0) of total_pages pages the pagination
\* block, above and below the list, reads "Page p+1 of total_pages"; the
\* previous arrow is disabled exactly on the first page and the next arrow
\* exactly on the last; an enabled arrow links to the file that the run
\* wrote for the page before, or after.
C24_PaginationFromPageAndTotal ==
    HomepageDone =>
        LET total_pages == Cardinality(HomepageWritten) IN
        \A p \in 0..(total_pages - 1) :
            LET page == disk[HomepageFile(p + 1)]
                block == page.top_pagination
            IN /\ page.bottom_pagination = block
               /\ block.info = "Page " \o ToString(p + 1) \o " of "
                               \o ToString(total_pages)
               /\ (block.prev = "") <=> (p = 0)
               /\ (block.next = "") <=> (p = total_pages - 1)
               /\ p > 0 =>
                      /\ block.prev = "/" \o HomepageFile(p)
                      /\ HomepageFile(p) \in HomepageWritten
               /\ p < total_pages - 1 =>
                      /\ block.next = "/" \o HomepageFile(p + 2)
                      /\ HomepageFile(p + 2) \in HomepageWritten

\* a middle page: both arrows enabled
C24_Witness ==
    /\ HomepageDone
    /\ HomepageWritten = {"index.html", "page-2.html", "page-3.html"}
    /\ disk["page-2.html"].top_pagination
           = [prev |-> "/index.html", info |-> "Page 2 of 3",
              next |-> "/page-3.html"]
    /\ disk["index.html"].top_pagination.prev = ""
    /\ disk["page-3.html"].top_pagination
           = [prev |-> "/page-2.html", info |-> "Page 3 of 3", next |-> ""]
\* the stored conversations that name the user among their contributors
ConversationsOf(user_id) ==
    {i \in 1..Len(conversations) :
        /\ "Contributors" \in DOMAIN conversations[i][2]
        /\ \E k \in 1..Len(conversations[i][2].Contributors) :
               conversations[i][2].Contributors[k] = user_id}

\* the directory of a user: the ID and the display name, which is the
\* member's name or "User {id}", blanks written as underscores
UserDirectory(user_id) ==
    "user-" \o ToString(user_id) \o "-"
    \o StrReplace(IF DictHas(members, user_id) THEN DictGet(members, user_id)
                  ELSE "User " \o ToString(user_id), " ", "_") \o "/"

StageOf(event) ==
    IF event.op = "ingest" THEN 1
    ELSE IF event.op = "markup" THEN 3
    ELSE IF \E n \in 1..Len(CacheFiles) : CacheFiles[n] = event.arg THEN 2
    ELSE IF StartsWithAt(event.arg, 1, "discussions/") THEN 3
    ELSE 4

StagesReached == {StageOf(events[k]) : k \in 1..Len(events)}

\* C26: in a full run the log is ordered by stage: every ingestion precedes
\* the writing of the cache, which precedes every rendering and writing of a
\* discussion page, which precedes every output of the user data, homepage
\* and search generators.  When the first page is rendered the four cache
\* files are written and hold the maps as loaded; when the first of the
\* later generators writes, every stored discussion has its record in the
\* metadata list and its page on the output directory, written by this run.
C26_FullRunStagesInOrder ==
    (~html_only /\ runs > 0) =>
        /\ \A i, j \in 1..Len(events) :
               i < j => StageOf(events[i]) <= StageOf(events[j])
        /\ (StagesReached \cap {3, 4} # {}) =>
               /\ \A n \in 1..Len(CacheFiles) : TimesWritten(CacheFiles[n]) = 1
               /\ saved = entity_maps
        /\ (4 \in StagesReached) =>
               /\ Len(discussions_meta) = Len(discussions)
               /\ \A i \in 1..Len(discussions) :
                      /\ \E k \in 1..Len(discussions_meta) :
                             discussions_meta[k].id = discussions[i][1]
                      /\ DiscussionFile(discussions[i][2]) \in WrittenFiles
        /\ (pc \in {"user_posts", "user_search_index", "user_chunks",
                    "about_page", "your_posts_page", "homepage",
                    "search_page", "done"}) =>
               /\ 3 \in StagesReached
               /\ Len(discussions_meta) = Len(discussions)

\* a full run on two discussions that has gone through the four stages
C26_Witness ==
    /\ FullDone
    /\ Len(discussions) = 2
    /\ StagesReached = {1, 2, 3, 4}
    /\ events[1] = Event("ingest", "members")
    /\ events[Len(events)].op = "write"
    /\ StageOf(events[Len(events)]) = 4
    /\ \E k \in 1..(Len(events) - 1) :
           /\ events[k] = Wrote("processed_data/categories.json")
           /\ events[k + 1] = Event("markup", ToString(discussions[1][1]))
MentionLink(user_id, username) ==
    "<a href=\"/members/" \o ToString(user_id)
    \o ".html\" class=\"user-mention\">@" \o username \o "</a>"

UnknownMention(username) ==
    "<span class=\"user-mention unknown\">@" \o username \o "</span>"

\* C27 as stated: a mention is rendered as a link to the page of a member
\* whose display name is the mentioned name, letter case included, whenever
\* there is such a member, whatever its ID, and as the unknown-mention span
\* when there is none.
C27_MentionLinkedIffMemberNamed ==
    pc = "render_done" =>
        \A i \in 1..Len(pieces) :
            pieces[i].kind = "mention" =>
                LET username == pieces[i].user
                    named == {m \in 1..Len(members) :
                                 members[m][2] = username}
                IN IF named # {}
                   THEN /\ \E m \in named :
                               Contains(html,
                                        MentionLink(members[m][1], username))
                        /\ ~Contains(html, UnknownMention(username))
                   ELSE /\ Contains(html, UnknownMention(username))
                        /\ ~Contains(html, "\">@" \o username \o "</a>")
\* C28 as stated: a quote tag with a username and an ID that has a closing
\* tag is rendered by the complex-quote stage, as a link "Quoting username"
\* followed by the block-quote, also when it stands inside the body of
\* another quote; the named-quote stage never renders it with the citation
\* "username;ID".
C28_QuoteWithIdRenderedComplex ==
    pc = "render_done" =>
        \A i \in 1..Len(pieces) :
            pieces[i].kind \in {"cquote", "nested"} =>
                /\ Contains(html,
                        "class=\"quote-link\">Quoting " \o pieces[i].user
                        \o "</a><blockquote class=\"user-quote\">"
                        \o NormalizeLineBreaks(pieces[i].body)
                        \o "</blockquote>")
                /\ ~Contains(html, "<cite>" \o pieces[i].user \o ";"
                                   \o pieces[i].target \o ":</cite>")
\* the closing tag of the kind of an opening tag
ClosingTagOf(open) ==
    IF StartsWithAt(open, 1, "[quote") THEN "[/quote]"
    ELSE IF StartsWithAt(open, 1, "[url") THEN "[/url]"
    ELSE IF StartsWithAt(open, 1, "[list") THEN "[/list]"
    ELSE "[/" \o SubSeq(open, 2, Len(open))

\* C29: an opening tag of any of the paired kinds (the three quote forms,
\* b, i, u, the two link forms, media, img, code, the two list forms) that
\* no closing tag of its kind follows stands in the output as it was
\* written, and the render of every text ends with a result.
C29_UnclosedTagStaysLiteral ==
    /\ pc = "render_done" =>
           \A i \in 1..Len(pieces) :
               (/\ pieces[i].kind = "open"
                /\ ~Contains(JoinPieces(SubSeq(pieces, i + 1, Len(pieces))),
                             ClosingTagOf(pieces[i].body)))
                   => Contains(html, pieces[i].body \o "x")
    /\ pc = "render_call" =>
           convert_plush_bbcode(raw, PyInt(current_discussion_id),
                                discussions, members) \in STRING

\* an unclosed named quote after a whole simple quote
C29_Witness ==
    /\ pc = "render_done"
    /\ raw = "[quote]q[/quote][quote=\"bob\"]x"
    /\ html = "<blockquote class=\"simple-quote\">q</blockquote>[quote=\"bob\"]x"
\* the comment entries of the user data the current run has written: those
\* of the per-user files and those of the user chunks
UserDataCommentEntries ==
    LET user_files == {f \in WrittenFiles :
                          StartsWithAt(f, 1, "assets/user-data/")}
        chunk_files == {f \in WrittenFiles :
                           StartsWithAt(f, 1, "assets/user-chunks/")}
    IN UNION {{disk[f].comments[k] : k \in 1..Len(disk[f].comments)} :
                 f \in user_files}
       \cup UNION {UNION {{disk[f][u][2].comments[k] :
                              k \in 1..Len(disk[f][u][2].comments)} :
                             u \in 1..Len(disk[f])} :
                      f \in chunk_files}

\* C30: at the end of a full run, the url of every comment entry of the
\* user data is "/discussions/{id}-{slug}.html#comment-{cid}", where
\* discussions/{id}-{slug}.html is the page this run wrote for the stored
\* discussion that owns the comment, and that page holds the element with
\* the id comment-{cid}.
C30_UserDataCommentUrlsResolve ==
    FullDone =>
        \A entry \in UserDataCommentEntries :
            /\ DictHas(discussions, entry.discussion_id)
            /\ \E j \in 1..Len(DictGetOr(comments, entry.discussion_id, <<>>)) :
                   DictGet(comments, entry.discussion_id)[j].CommentID
                       = entry.id
            /\ \E page \in {f \in WrittenFiles :
                               StartsWithAt(f, 1, "discussions/")} :
                   /\ entry.url = "/" \o page \o "#comment-"
                                  \o ToString(entry.id)
                   /\ page = "discussions/" \o ToString(entry.discussion_id)
                             \o "-"
                             \o generate_slug(
                                    DictGet(discussions,
                                            entry.discussion_id).Name)
                             \o ".html"
                   /\ \E e \in 1..Len(disk[page].comments_html) :
                          disk[page].comments_html[e].id
                              = "comment-" \o ToString(entry.id)

\* member 2 wrote comment 5 on discussion 10: the entry is in the file of
\* user 2 and in the chunk of member 2
C30_Witness ==
    /\ FullDone
    /\ DictKeys(members) = <<2>>
    /\ "assets/user-data/2.json" \in WrittenFiles
    /\ ChunkFile(0) \in WrittenFiles
    /\ \E k \in 1..Len(disk["assets/user-data/2.json"].comments) :
           disk["assets/user-data/2.json"].comments[k].url
               = "/discussions/10-hello-world.html#comment-5"
    /\ \E k \in 1..Len(disk[ChunkFile(0)][1][2].comments) :
           disk[ChunkFile(0)][1][2].comments[k].url
               = "/discussions/10-hello-world.html#comment-5"
    /\ \E e \in 1..Len(disk["discussions/10-hello-world.html"].comments_html) :
           disk["discussions/10-hello-world.html"].comments_html[e].id
               = "comment-5"
    /\ Cardinality(UserDataCommentEntries) >= 3

=============================================================================
